---------------------------- MODULE Spec2Model ----------------------------
(***************************************************************************)
(* Model of the opportunities module                                       *)
(* (packages/core/src/modules/opportunities.ts).                           *)
(*                                                                         *)
(* The relational store is modelled table by table (sets of rows, a bag    *)
(* where the code itself does not rule duplicates out), every exported     *)
(* use case is a call made by a process, and every awaited statement that  *)
(* reads or writes the store is one atomic step of that call, so that      *)
(* calls of different processes interleave between statements.  A          *)
(* db.transaction() block is one step.  Calls to external collaborators    *)
(* (page fetch, chat completion) have no effect on the store; their        *)
(* outcome is chosen nondeterministically in the step that consumes it.    *)
(*                                                                         *)
(* Text (links, page content, chat messages) is a tuple of one-character   *)
(* strings so that toLowerCase, includes, ILIKE and the link regular       *)
(* expression are computed, not assumed.  Time is counted in hours.        *)
(***************************************************************************)
EXTENDS Naturals, Integers, Sequences, FiniteSets, Bags, TLC

VARIABLES
    opportunities,               \* table "opportunities": set of rows
    opportunityTags,             \* table "opportunityTags": set of rows
    opportunityTagAssociations,  \* table: set of [opportunityId, tagId]
    opportunityBookmarks,        \* table: bag of [opportunityId, studentId]
    opportunityReports,          \* table: set of [opportunityId, reporterId, reason]
    companies,                   \* table "companies": set of names
    jobs,                        \* bag of jobs handed to the scheduler
    now,                         \* wall clock, in hours
    nextId,                      \* source of id()
    calls,                       \* number of calls that may still be started
    proc                         \* per process: the call it runs

vars == << opportunities, opportunityTags, opportunityTagAssociations,
           opportunityBookmarks, opportunityReports, companies, jobs,
           now, nextId, calls, proc >>

-----------------------------------------------------------------------------
(* Bounds of the model *)

MaxSubmitCalls == 2

MaxSeqCalls == 3

MaxConcurrentCalls == 2

MaxTime == 2

(* Program constants *)

OneMonth == 720

ThreeHours == 3

MaxContentLength == 10000

MaxTitleLength == 100

MaxDescriptionLength == 500

ReportThreshold == 2

-----------------------------------------------------------------------------
(* Nullable values: null is the empty tuple, a value v is <<v>> *)

Null == << >>

Some(v) == << v >>

IsNull(x) == x = << >>

Val(x) == x[1]

-----------------------------------------------------------------------------
(* Text *)

UpperCaseLetters ==
    << "A","B","C","D","E","F","G","H","I","J","K","L","M",
       "N","O","P","Q","R","S","T","U","V","W","X","Y","Z" >>

LowerCaseLetters ==
    << "a","b","c","d","e","f","g","h","i","j","k","l","m",
       "n","o","p","q","r","s","t","u","v","w","x","y","z" >>

LowerChar(c) ==
    IF \E i \in 1..26 : UpperCaseLetters[i] = c
    THEN LowerCaseLetters[CHOOSE i \in 1..26 : UpperCaseLetters[i] = c]
    ELSE c

\* String.prototype.toLowerCase
toLowerCase(s) == [i \in 1..Len(s) |-> LowerChar(s[i])]

\* whether `part` occurs in `s` starting at index i (1-based)
OccursAt(s, part, i) ==
    /\ i + Len(part) - 1 <= Len(s)
    /\ \A k \in 1..Len(part) : s[i + k - 1] = part[k]

\* String.prototype.includes
includes(s, part) == \E i \in 1..(Len(s) + 1) : OccursAt(s, part, i)

\* String.prototype.slice(0, n)
slice(s, n) == SubSeq(s, 1, IF Len(s) < n THEN Len(s) ELSE n)

EXPIRED_PHRASES ==
  << <<"4","0","4">>,
     <<"c","l","o","s","e","d">>,
     <<"d","o","e","s"," ","n","o","t"," ","e","x","i","s","t">>,
     <<"d","o","e","s","n","'","t"," ","e","x","i","s","t">>,
     <<"e","x","p","i","r","e","d">>,
     <<"f","i","l","l","e","d">>,
     <<"n","o"," ","l","o","n","g","e","r"," ","a","c","c","e","p","t","i","n","g">>,
     <<"n","o"," ","l","o","n","g","e","r"," ","a","v","a","i","l","a","b","l","e">>,
     <<"n","o"," ","l","o","n","g","e","r"," ","e","x","i","s","t","s">>,
     <<"n","o"," ","l","o","n","g","e","r"," ","o","p","e","n">>,
     <<"n","o","t"," ","a","c","c","e","p","t","i","n","g">>,
     <<"n","o","t"," ","a","v","a","i","l","a","b","l","e">>,
     <<"n","o","t"," ","b","e"," ","f","o","u","n","d">>,
     <<"n","o","t"," ","c","u","r","r","e","n","t","l","y"," ","a","c","c","e","p","t","i","n","g">>,
     <<"n","o","t"," ","f","o","u","n","d">>,
     <<"n","o","t"," ","o","p","e","n">>,
     <<"o","o","p","s">>,
     <<"r","e","m","o","v","e","d">>,
     <<"s","o","r","r","y">> >>

\* mutant: the scan without toLowerCase
hasExpiredPhraseCaseSensitive(content) ==
    \E n \in 1..Len(EXPIRED_PHRASES) : includes(content, EXPIRED_PHRASES[n])

\* EXPIRED_PHRASES.some((phrase) => content.toLowerCase().includes(phrase))
hasExpiredPhrase(content) ==
    \E n \in 1..Len(EXPIRED_PHRASES) :
        includes(toLowerCase(content), EXPIRED_PHRASES[n])

(***************************************************************************)
(* SQL  str ILIKE pattern : LIKE on the lower-cased operands.  In the      *)
(* pattern "%" matches any run of characters, "_" any one character, and   *)
(* a backslash makes the character after it literal.                       *)
(***************************************************************************)
RECURSIVE Like(_, _)
Like(str, pattern) ==
    IF pattern = << >> THEN str = << >>
    ELSE IF Head(pattern) = "%"
         THEN \/ Like(str, Tail(pattern))
              \/ (str # << >> /\ Like(Tail(str), pattern))
    ELSE IF Head(pattern) = "_"
         THEN str # << >> /\ Like(Tail(str), Tail(pattern))
    ELSE IF Head(pattern) = "\\" /\ Len(pattern) >= 2
         THEN /\ str # << >>
              /\ Head(str) = pattern[2]
              /\ Like(Tail(str), Tail(Tail(pattern)))
    ELSE /\ str # << >>
         /\ Head(str) = Head(pattern)
         /\ Like(Tail(str), Tail(pattern))

ILike(str, pattern) == Like(toLowerCase(str), toLowerCase(pattern))

(***************************************************************************)
(* getFirstLinkInMessage: the first match of                               *)
(*     /<(https?:\/\/[^\s|>]+)(?:\|[^>]+)?>/                               *)
(* in the message, group 1 of it; << >> when nothing matches.              *)
(***************************************************************************)
Whitespace == { " ", "\t", "\n", "\r" }

\* the first index >= i of `s` holding a character of `stop`, Len(s)+1 if none
RunEnd(s, i, stop) ==
    IF \E j \in i..Len(s) : s[j] \in stop
    THEN CHOOSE j \in i..Len(s) :
            s[j] \in stop /\ \A k \in i..(j - 1) : s[k] \notin stop
    ELSE Len(s) + 1

HttpScheme == <<"h","t","t","p",":","/","/">>

HttpsScheme == <<"h","t","t","p","s",":","/","/">>

\* the link of a match that starts with the "<" at index i, << >> if none
LinkMatchAt(s, i) ==
    LET scheme  == IF OccursAt(s, HttpsScheme, i + 1) THEN HttpsScheme
                   ELSE IF OccursAt(s, HttpScheme, i + 1) THEN HttpScheme
                   ELSE << >>
        from    == i + 1 + Len(scheme)
        urlEnd  == RunEnd(s, from, Whitespace \cup {"|", ">"})
        labelTo == RunEnd(s, urlEnd + 1, {">"})
        closed  == \/ (urlEnd <= Len(s) /\ s[urlEnd] = ">")
                   \/ /\ urlEnd <= Len(s) /\ s[urlEnd] = "|"
                      /\ labelTo > urlEnd + 1
                      /\ labelTo <= Len(s)
    IN  IF s[i] = "<" /\ scheme # << >> /\ urlEnd > from /\ closed
        THEN SubSeq(s, i + 1, urlEnd - 1)
        ELSE << >>

\* mutant: a URL is taken as the link without the "<" and ">" around it
getFirstLinkUnbracketed(message) ==
    LET starts == { i \in 1..Len(message) :
                      \/ OccursAt(message, HttpScheme, i)
                      \/ OccursAt(message, HttpsScheme, i) }
        first == CHOOSE i \in starts : \A k \in starts : i <= k
    IN  IF starts = {} THEN << >>
        ELSE SubSeq(message, first,
                    RunEnd(message, first, Whitespace \cup {"|", ">"}) - 1)

getFirstLinkInMessage(message) ==
    IF \E i \in 1..Len(message) : LinkMatchAt(message, i) # << >>
    THEN LinkMatchAt(message,
            CHOOSE i \in 1..Len(message) :
                /\ LinkMatchAt(message, i) # << >>
                /\ \A k \in 1..(i - 1) : LinkMatchAt(message, k) = << >>)
    ELSE << >>

DocsGoogleCom == <<"d","o","c","s",".","g","o","o","g","l","e",".","c","o","m">>

LinkedinCom == <<"l","i","n","k","e","d","i","n",".","c","o","m">>

isProtectedURL(link) == includes(link, DocsGoogleCom) \/ includes(link, LinkedinCom)

-----------------------------------------------------------------------------
(* Results: success(data), fail({ code, error }), or an exception that     *)
(* unwinds out of the call (a rejected promise)                            *)

success(data) == [kind |-> "success", data |-> data]

fail(code) == [kind |-> "fail", code |-> code]

Thrown == [kind |-> "throw"]

Pending == [kind |-> "pending"]

\* record r with the fields of s replacing or extending it
Merge(r, s) ==
    [f \in (DOMAIN r) \cup (DOMAIN s) |-> IF f \in DOMAIN s THEN s[f] ELSE r[f]]

-----------------------------------------------------------------------------
(* Fixtures: the processes, and the tables this module only reads *)

Procs == { "p1", "p2" }

Members == { "m1", "m2", "a1", "a2" }

\* table "admins": a1 is an active admin, a2 a soft-deleted one
Admins ==
    { [memberId |-> "a1", deletedAt |-> Null],
      [memberId |-> "a2", deletedAt |-> Some(0)] }

LinkJ == <<"h","t","t","p",":","/","/","x","/","j">>

LinkJUpper == <<"h","t","t","p",":","/","/","x","/","J">>

LinkWild == <<"h","t","t","p",":","/","/","x","/","_">>

LinkEsc == <<"h","t","t","p",":","/","/","x","/","\\","j">>

\* links given to addOpportunity (each passes AddOpportunityInput)
AddLinks == { LinkJ, LinkJUpper, LinkWild, LinkEsc }

Posters == { "m1" }

\* table "slackMessages"
SlackMessages ==
    { [channelId |-> "C1", id |-> "s1", studentId |-> "m1", userId |-> "U1",
       text |-> <<"<","h","t","t","p",":","/","/","x","/","j",">">>],
      [channelId |-> "C1", id |-> "s2", studentId |-> "m2", userId |-> "U2",
       text |-> <<"s","e","e"," ","<","h","t","t","p",":","/","/","x","/","J",
                  "|","j","o","b",">"," ","<","h","t","t","p",":","/","/","k",">">>],
      [channelId |-> "C1", id |-> "s3", studentId |-> "m1", userId |-> "U1",
       text |-> <<"h","e","l","l","o">>],
      [channelId |-> "C1", id |-> "s4", studentId |-> "m1", userId |-> "U1",
       text |-> << >>],
      [channelId |-> "C1", id |-> "s5", studentId |-> "m2", userId |-> "U2",
       text |-> <<"<","h","t","t","p","s",":","/","/","l","i","n","k","e","d",
                  "i","n",".","c","o","m","/","j",">">>],
      [channelId |-> "C1", id |-> "s6", studentId |-> "m1", userId |-> "U1",
       text |-> <<"a","t"," ","h","t","t","p",":","/","/","x","/","j">>],
      [channelId |-> "C1", id |-> "s7", studentId |-> "m2", userId |-> "U2",
       text |-> <<"<","h","t","t","p",":","/","/","x","/","\\","j",">">>] }

\* the (channel, message) pairs a chat-sourced creation job may carry;
\* s9 is a message that is not (or no longer) stored
SlackJobs ==
    { <<"C1", m>> : m \in { "s1", "s2", "s3", "s4", "s5", "s6", "s7", "s9" } }

\* getPageContent(link): throws, or yields the page text
PageContents ==
    { << >>,
      <<"A","p","p","l","y"," ","n","o","w">>,
      <<"R","o","l","e"," ","E","X","P","I","R","E","D">>,
      <<"U","n","f","i","l","l","e","d"," ","r","o","l","e">> }

FetchOutcomes ==
    { [threw |-> TRUE, content |-> << >>] }
        \cup { [threw |-> FALSE, content |-> c] : c \in PageContents }

-----------------------------------------------------------------------------
(* Chat completions and their validation *)

LongTitle == "a title of 101 characters"

\* String.prototype.length of the strings completions are built from
Length(s) ==
    CASE s = "" -> 0
      [] s = "Acme" -> 4
      [] s = "Engineer" -> 8
      [] s = "Analyst" -> 7
      [] s = "Build things" -> 12
      [] s = "SWE" -> 3
      [] s = "Rocketry" -> 8
      [] s = "soon" -> 4
      [] s = "hour 1" -> 6
      [] s = "hour 900" -> 8
      [] s = LongTitle -> MaxTitleLength + 1

\* new Date(text): the time it denotes, or an Invalid Date
NewDate(s) ==
    CASE s = "hour 1" -> [valid |-> TRUE, time |-> 1]
      [] s = "hour 900" -> [valid |-> TRUE, time |-> 900]
      [] OTHER -> [valid |-> FALSE, time |-> 0]

Json(company, title, description, expiresAt, tags) ==
    [company |-> company, title |-> title, description |-> description,
     expiresAt |-> expiresAt, tags |-> tags]

\* what JSON.parse makes of the completion text
JsonAllNull == Json(Null, Null, Null, Null, Null)

JsonNoDescription == Json(Some("Acme"), Some("Engineer"), Null, Null, Null)

JsonFull ==
    Json(Some("Acme"), Some("Engineer"), Some("Build things"), Null,
         Some(<<"SWE", "Rocketry">>))

JsonDated ==
    Json(Null, Some("Analyst"), Some("Build things"), Some("hour 1"), Null)

JsonLater ==
    Json(Null, Some("Analyst"), Some("Build things"), Some("hour 900"),
         Some(<<"SWE">>))

JsonBadDate ==
    Json(Null, Some("Engineer"), Some("Build things"), Some("soon"), Null)

JsonNoMatch ==
    Json(Null, Some("Engineer"), Some("Build things"), Null, Some(<<"Rocketry">>))

JsonLongTitle == Json(Null, Some(LongTitle), Some("Build things"), Null, Null)

JsonNoTags == Json(Null, Some("Engineer"), Some("Build things"), Null, Some(<< >>))

\* getChatCompletion: a failure, or a text that is not JSON, or JSON
Completions ==
    { [ok |-> FALSE, json |-> FALSE, value |-> JsonAllNull],
      [ok |-> TRUE, json |-> FALSE, value |-> JsonAllNull] }
        \cup { [ok |-> TRUE, json |-> TRUE, value |-> v] :
                 v \in { JsonAllNull, JsonNoDescription, JsonFull, JsonDated,
                         JsonLater, JsonBadDate, JsonNoMatch, JsonLongTitle,
                         JsonNoTags } }

\* z.string().trim().min(1).max(n).nullable()
ValidString(x, max) == IsNull(x) \/ (Length(Val(x)) >= 1 /\ Length(Val(x)) <= max)

\* mutant: no validation of the parsed JSON
AcceptsAnyJson(json) == TRUE

\* RefineOpportunityResponse.parse(json) does not throw
RefineOpportunityResponse(json) ==
    /\ IsNull(json.company) \/ Length(Val(json.company)) >= 1
    /\ ValidString(json.description, MaxDescriptionLength)
    /\ ValidString(json.title, MaxTitleLength)
    /\ \/ IsNull(json.tags)
       \/ /\ Len(Val(json.tags)) >= 1
          /\ \A i \in 1..Len(Val(json.tags)) : Length(Val(json.tags)[i]) >= 1

-----------------------------------------------------------------------------
(* The store *)

\* the tag catalog the board starts with
TagCatalog ==
    { [id |-> "t1", name |-> "SWE"], [id |-> "t2", name |-> "Internship"] }

\* the placeholder row both submission paths insert
Placeholder(id, link, postedBy, slackChannelId, slackMessageId) ==
    [ id |-> id,
      link |-> link,
      title |-> "Opportunity",
      description |-> "N/A",
      companyId |-> Null,
      postedBy |-> postedBy,
      createdAt |-> now,
      expiresAt |-> now + OneMonth,
      lastExpirationCheck |-> Null,
      refinedAt |-> Null,
      slackChannelId |-> slackChannelId,
      slackMessageId |-> slackMessageId ]

\* selectFrom('opportunities').where('link', 'ilike', link)
existingOpportunity(link) == { o \in opportunities : ILike(o.link, link) }

\* the reports left when the reports of an opportunity go with it
ReportsLeftByCascade(id) == { r \in opportunityReports : r.opportunityId # id }

\* mutant: the delete of the opportunity row alone
DeleteWithoutCascade(id) ==
    /\ opportunities' = { o \in opportunities : o.id # id }
    /\ UNCHANGED << opportunityTagAssociations, opportunityBookmarks,
                    opportunityReports >>

\* deleteFrom('opportunities').where('id', '=', id); the rows of the other
\* tables that reference the opportunity go with it (lines 545-546: "The
\* database will cascade delete any associated records")
DeleteFromOpportunities(id) ==
    /\ opportunities' = { o \in opportunities : o.id # id }
    /\ opportunityTagAssociations' =
           { a \in opportunityTagAssociations : a.opportunityId # id }
    /\ opportunityBookmarks' =
           [ b \in { x \in DOMAIN opportunityBookmarks : x.opportunityId # id }
               |-> opportunityBookmarks[b] ]
    /\ opportunityReports' = ReportsLeftByCascade(id)

\* job(name, data)
Enqueue(queue, j) == queue (+) SetToBag({ j })

-----------------------------------------------------------------------------
(* Calls *)

NoCall ==
    [ pc |-> "idle", op |-> "none",
      link |-> << >>, postedBy |-> "",
      channel |-> Null, message |-> Null, slackUser |-> Null,
      sendNotification |-> FALSE,
      member |-> "", reason |-> "",
      oid |-> Null,            \* the opportunity the call works on
      fetch |-> Null,          \* what getPageContent did, once called
      completion |-> Null,     \* what getChatCompletion gave, once called
      before |-> Null,         \* the row as it was when the transaction began
      returned |-> Null,       \* the row the transaction returned
      refined |-> Pending,     \* the result of refineOpportunity, once returned
      reports |-> 0,           \* reportOpportunity: the count it read
      admin |-> FALSE,         \* reportOpportunity: whether it read an admins row
      repeated |-> FALSE,      \* reportOpportunity: the reporter had reported it
      force |-> FALSE,         \* checkForExpiredOpportunity: its force argument
      limit |-> 0,             \* checkForExpiredOpportunities: its limit
      snapshot |-> Null,       \* deleteOpportunity: the tables when it was called
      prev |-> Null,           \* the bookmark call the process made just before
      at |-> Null,             \* the time of the call's write to the row
      res |-> Pending ]        \* the result of the call

CanStart(p) == proc[p].pc \in { "idle", "done" } /\ calls > 0

Begin(p, fields) ==
    /\ proc' = [proc EXCEPT ![p] = Merge(NoCall, fields)]
    /\ calls' = calls - 1

Step(p, fields) ==
    /\ proc' = [proc EXCEPT ![p] = Merge(proc[p], fields)]
    /\ calls' = calls

Return(p, result) == Step(p, [pc |-> "done", res |-> result])

(***************************************************************************)
(* What the caller of refineOpportunity does with its outcome:             *)
(* addOpportunity awaits it and returns success(opportunity) whatever the  *)
(* result (an exception is not caught and unwinds through addOpportunity); *)
(* createOpportunityFromSlack returns the result as its own.               *)
(***************************************************************************)
AfterRefine(p, result) ==
    Step(p, [ pc |-> "done",
              refined |-> result,
              res |-> IF proc[p].op = "addOpportunity" /\ result.kind # "throw"
                      THEN success([id |-> Val(proc[p].oid)])
                      ELSE result ])

\* the same, when refineOpportunity returns right after the completion c
AfterCompletion(p, c, result) ==
    Step(p, [ pc |-> "done",
              completion |-> Some(c),
              refined |-> result,
              res |-> IF proc[p].op = "addOpportunity" /\ result.kind # "throw"
                      THEN success([id |-> Val(proc[p].oid)])
                      ELSE result ])

-----------------------------------------------------------------------------
(* addOpportunity *)

\* lines 84-94: the duplicate-link lookup
AddOpportunityLookup(p, link, postedBy) ==
    /\ CanStart(p)
    /\ Begin(p, [ op |-> "addOpportunity", link |-> link, postedBy |-> postedBy,
                  pc |-> IF existingOpportunity(link) # {} THEN "done"
                         ELSE "add_insert",
                  res |-> IF existingOpportunity(link) # {} THEN fail(409)
                          ELSE Pending ])
    /\ UNCHANGED << opportunities, opportunityTags, opportunityTagAssociations,
                    opportunityBookmarks, opportunityReports, companies, jobs,
                    now, nextId >>

\* lines 98-110: the placeholder insert
AddOpportunityInsert(p) ==
    /\ proc[p].pc = "add_insert"
    /\ opportunities' = opportunities \cup
           { Placeholder(nextId, proc[p].link, proc[p].postedBy, Null, Null) }
    /\ nextId' = nextId + 1
    /\ Step(p, [pc |-> "add_fetch", oid |-> Some(nextId)])
    /\ UNCHANGED << opportunityTags, opportunityTagAssociations,
                    opportunityBookmarks, opportunityReports, companies, jobs,
                    now >>

\* lines 112-146: the fetch (an exception is caught and reported), the
\* early return, the expired-phrase scan and the delete of the placeholder
AddOpportunityFetch(p) ==
    /\ proc[p].pc = "add_fetch"
    /\ \E f \in FetchOutcomes :
         LET websiteContent == IF f.threw THEN << >> ELSE f.content
             hasExpired == hasExpiredPhrase(websiteContent)
         IN  IF websiteContent = << >>
             THEN /\ Step(p, [ pc |-> "done", fetch |-> Some(f),
                               res |-> success([id |-> Val(proc[p].oid)]) ])
                  /\ UNCHANGED << opportunities, opportunityTagAssociations,
                                  opportunityBookmarks, opportunityReports >>
             ELSE IF hasExpired
             THEN /\ DeleteFromOpportunities(Val(proc[p].oid))
                  /\ Step(p, [pc |-> "done", fetch |-> Some(f), res |-> fail(404)])
             ELSE /\ Step(p, [pc |-> "refine", fetch |-> Some(f)])
                  /\ UNCHANGED << opportunities, opportunityTagAssociations,
                                  opportunityBookmarks, opportunityReports >>
    /\ UNCHANGED << opportunityTags, companies, jobs, now, nextId >>

-----------------------------------------------------------------------------
(* Notifications *)

\* sendOpportunityRefinementNotification
RefinementNotification(opportunityId, slackUserId) ==
    [ name |-> "notification.slack.send", message |-> "paste the content",
      channel |-> slackUserId, threadId |-> Null, opportunityId |-> opportunityId ]

\* the 'I added this to our opportunities board' job
AddedNotification(o) ==
    [ name |-> "notification.slack.send", message |-> "added to the board",
      channel |-> Val(o.slackChannelId), threadId |-> o.slackMessageId,
      opportunityId |-> o.id ]

-----------------------------------------------------------------------------
(* createOpportunityFromSlack *)

\* lines 392-424: the message, its first link, the duplicate-link lookup
CreateFromSlackLookup(p, slackChannelId, slackMessageId, sendNotification) ==
    /\ CanStart(p)
    /\ LET found == { m \in SlackMessages :
                        m.channelId = slackChannelId /\ m.id = slackMessageId }
           slackMessage == CHOOSE m \in found : TRUE
           link == getFirstLinkInMessage(slackMessage.text)
           call == [ op |-> "createOpportunityFromSlack",
                     channel |-> Some(slackChannelId),
                     message |-> Some(slackMessageId),
                     sendNotification |-> sendNotification ]
       IN  IF found = {} \/ slackMessage.text = << >>
           THEN Begin(p, Merge(call, [pc |-> "done", res |-> fail(404)]))
           ELSE IF link = << >>
           THEN Begin(p, Merge(call, [ pc |-> "done",
                                       res |-> success([empty |-> TRUE]) ]))
           ELSE IF existingOpportunity(link) # {}
           THEN Begin(p, Merge(call, [ pc |-> "done", link |-> link,
                                       res |-> success([empty |-> TRUE]) ]))
           ELSE Begin(p, Merge(call, [ pc |-> "slack_insert", link |-> link,
                                       postedBy |-> slackMessage.studentId,
                                       slackUser |-> Some(slackMessage.userId) ]))
    /\ UNCHANGED << opportunities, opportunityTags, opportunityTagAssociations,
                    opportunityBookmarks, opportunityReports, companies, jobs,
                    now, nextId >>

\* lines 439-460: insert, or on a conflict on (slackChannelId, slackMessageId)
\* set the description of the row in conflict; the table afterwards
UpsertFromSlack(id, link, postedBy, slackChannelId, slackMessageId) ==
    IF \E o \in opportunities :
           o.slackChannelId = slackChannelId /\ o.slackMessageId = slackMessageId
    THEN { IF o.slackChannelId = slackChannelId /\ o.slackMessageId = slackMessageId
           THEN [o EXCEPT !.description = "N/A"]
           ELSE o : o \in opportunities }
    ELSE opportunities \cup
           { Placeholder(id, link, postedBy, slackChannelId, slackMessageId) }

\* lines 426-482: the fetch unless the link is access-gated (an exception is
\* caught and reported), the upsert, and the hand-over to refineOpportunity
\* or the request to paste the content
CreateFromSlackInsert(p) ==
    /\ proc[p].pc = "slack_insert"
    /\ \E f \in IF isProtectedURL(proc[p].link) THEN { Null }
                ELSE { Some(o) : o \in FetchOutcomes } :
         LET websiteContent == IF f = Null \/ Val(f).threw THEN << >>
                               ELSE Val(f).content
             table == UpsertFromSlack(nextId, proc[p].link, proc[p].postedBy,
                                      proc[p].channel, proc[p].message)
             opportunity == CHOOSE o \in table :
                                /\ o.slackChannelId = proc[p].channel
                                /\ o.slackMessageId = proc[p].message
         IN  /\ opportunities' = table
             /\ IF slice(websiteContent, MaxContentLength) # << >>
                THEN /\ Step(p, [ pc |-> "refine", fetch |-> f,
                                  oid |-> Some(opportunity.id) ])
                     /\ jobs' = jobs
                ELSE /\ Step(p, [ pc |-> "done", fetch |-> f,
                                  oid |-> Some(opportunity.id),
                                  res |-> success([id |-> opportunity.id]) ])
                     /\ jobs' = IF proc[p].sendNotification
                                THEN Enqueue(jobs, RefinementNotification(
                                         opportunity.id, Val(proc[p].slackUser)))
                                ELSE jobs
    /\ nextId' = nextId + 1
    /\ UNCHANGED << opportunityTags, opportunityTagAssociations,
                    opportunityBookmarks, opportunityReports, companies, now >>

-----------------------------------------------------------------------------
(* refineOpportunity *)

\* lines 734-742, 756: a call of refineOpportunity; the chat identifiers
\* are optional (the refine form gives none)
RefineOpportunityCall(p, opportunityId, slackChannelId, slackUserId) ==
    /\ CanStart(p)
    /\ Begin(p, [ op |-> "refineOpportunity", oid |-> Some(opportunityId),
                  channel |-> slackChannelId, slackUser |-> slackUserId,
                  pc |-> "refine" ])
    /\ UNCHANGED << opportunities, opportunityTags, opportunityTagAssociations,
                    opportunityBookmarks, opportunityReports, companies, jobs,
                    now, nextId >>

\* saveCompanyIfNecessary(trx, name): find or create, the id is the name
saveCompanyIfNecessary(name) == [companies |-> companies \cup { name }, id |-> name]

\* const expiresAt = data.expiresAt ? new Date(data.expiresAt) : undefined
\* (<< >> is undefined: the column is left out of the update)
RefinedExpiresAt(data) ==
    IF IsNull(data.expiresAt) \/ Val(data.expiresAt) = ""
    THEN << >>
    ELSE << NewDate(Val(data.expiresAt)) >>

\* mutant: a missing expiry is written as "expires now"
RefineUpdateWritesExpiry(o, data) ==
    [ o EXCEPT
        !.description = IF IsNull(data.description) THEN @ ELSE Val(data.description),
        !.title = IF IsNull(data.title) THEN @ ELSE Val(data.title),
        !.companyId = data.company,
        !.expiresAt = IF RefinedExpiresAt(data) = << >> THEN now
                      ELSE RefinedExpiresAt(data)[1].time ]

\* lines 831-841: the first update of the transaction, applied to one row
RefineUpdate(o, data) ==
    [ o EXCEPT
        !.description = IF IsNull(data.description) THEN @ ELSE Val(data.description),
        !.title = IF IsNull(data.title) THEN @ ELSE Val(data.title),
        !.companyId = data.company,
        !.expiresAt = IF RefinedExpiresAt(data) = << >> THEN @
                      ELSE RefinedExpiresAt(data)[1].time ]

\* mutant: refinedAt is not set with the update
SetRefinedAtNever(o) == o

\* mutant: refinedAt is set on every refinement
SetRefinedAtAlways(o) == [ o EXCEPT !.refinedAt = Some(now) ]

\* lines 845-850: set refinedAt where it is null
SetRefinedAt(o) ==
    [ o EXCEPT !.refinedAt = IF IsNull(@) THEN Some(now) ELSE @ ]

\* lines 856-860: the catalog tags whose name is one of the extracted names
matchedTags(names) ==
    { t \in opportunityTags : \E i \in 1..Len(names) : t.name = names[i] }

(***************************************************************************)
(* The statements of the transaction that make it throw, in which case it  *)
(* rolls back: no row has the id (executeTakeFirstOrThrow); the expiry     *)
(* is an Invalid Date, which the store rejects; the tag insert is given    *)
(* an empty list of values, which the query builder compiles to a          *)
(* statement the store rejects.                                            *)
(***************************************************************************)
RefineTransactionThrows(opportunityId, data) ==
    \/ { o \in opportunities : o.id = opportunityId } = {}
    \/ RefinedExpiresAt(data) # << >> /\ ~RefinedExpiresAt(data)[1].valid
    \/ ~IsNull(data.tags) /\ matchedTags(Val(data.tags)) = {}

\* lines 824-876: the transaction, committed
RefineTransaction(p, c) ==
    LET data == c.value
        opportunityId == Val(proc[p].oid)
        row == CHOOSE o \in opportunities : o.id = opportunityId
    IN  /\ companies' = IF IsNull(data.company) THEN companies
                        ELSE saveCompanyIfNecessary(Val(data.company)).companies
        /\ opportunities' =
               { IF o.id = opportunityId THEN SetRefinedAt(RefineUpdate(o, data))
                 ELSE o : o \in opportunities }
        /\ opportunityTagAssociations' =
               IF IsNull(data.tags) THEN opportunityTagAssociations
               ELSE opportunityTagAssociations \cup
                      { [opportunityId |-> opportunityId, tagId |-> t.id] :
                            t \in matchedTags(Val(data.tags)) }
        /\ Step(p, [ pc |-> "refine_notify", completion |-> Some(c),
                     before |-> Some(row), at |-> Some(now),
                     returned |-> Some([ id |-> row.id,
                                         refinedAt |-> row.refinedAt,
                                         slackChannelId |-> row.slackChannelId,
                                         slackMessageId |-> row.slackMessageId ]) ])
        /\ UNCHANGED jobs

\* mutant: the request is sent whenever the call carries a chat user
NotifyManualRefinementOfUser(queue, opportunityId, slackChannelId, slackUserId) ==
    IF ~IsNull(slackUserId)
    THEN Enqueue(queue, RefinementNotification(opportunityId, Val(slackUserId)))
    ELSE queue

\* lines 813-819: the request to paste the content, sent when the call
\* carries both chat identifiers; the queue afterwards
NotifyManualRefinement(queue, opportunityId, slackChannelId, slackUserId) ==
    IF ~IsNull(slackChannelId) /\ ~IsNull(slackUserId)
    THEN Enqueue(queue, RefinementNotification(opportunityId, Val(slackUserId)))
    ELSE queue

\* lines 759-876: the tag list, the completion, its parsing and validation,
\* the exit when title or description is missing, and the transaction
RefineOpportunityExtract(p) ==
    /\ proc[p].pc = "refine"
    /\ \E c \in Completions :
         IF ~c.ok
         THEN /\ AfterCompletion(p, c, fail(500))
              /\ UNCHANGED << opportunities, opportunityTagAssociations, companies, jobs >>
         ELSE IF ~c.json \/ ~RefineOpportunityResponse(c.value)
         THEN /\ AfterCompletion(p, c, fail(400))
              /\ UNCHANGED << opportunities, opportunityTagAssociations, companies, jobs >>
         ELSE IF IsNull(c.value.title) \/ IsNull(c.value.description)
         THEN /\ jobs' = NotifyManualRefinement(jobs, Val(proc[p].oid),
                                                proc[p].channel, proc[p].slackUser)
              /\ AfterCompletion(p, c, success([empty |-> TRUE]))
              /\ UNCHANGED << opportunities, opportunityTagAssociations, companies >>
         ELSE IF RefineTransactionThrows(Val(proc[p].oid), c.value)
         THEN /\ AfterCompletion(p, c, Thrown)
              /\ UNCHANGED << opportunities, opportunityTagAssociations, companies, jobs >>
         ELSE RefineTransaction(p, c)
    /\ UNCHANGED << opportunityTags, opportunityBookmarks, opportunityReports,
                    now, nextId >>

\* mutant: the notification sent whether refined before or not
RefineOpportunityNotifyEveryTime(p) ==
    /\ proc[p].pc = "refine_notify"
    /\ LET opportunity == Val(proc[p].returned)
       IN  /\ jobs' = IF /\ ~IsNull(opportunity.slackChannelId)
                         /\ ~IsNull(opportunity.slackMessageId)
                      THEN Enqueue(jobs, AddedNotification(opportunity))
                      ELSE jobs
           /\ AfterRefine(p, success(opportunity))
    /\ UNCHANGED << opportunities, opportunityTags, opportunityTagAssociations,
                    opportunityBookmarks, opportunityReports, companies,
                    now, nextId >>

\* lines 878-895: the notification of a first refinement, and the return
RefineOpportunityNotify(p) ==
    /\ proc[p].pc = "refine_notify"
    /\ LET opportunity == Val(proc[p].returned)
       IN  /\ jobs' = IF /\ ~IsNull(opportunity.slackChannelId)
                         /\ ~IsNull(opportunity.slackMessageId)
                         /\ IsNull(opportunity.refinedAt)
                      THEN Enqueue(jobs, AddedNotification(opportunity))
                      ELSE jobs
           /\ AfterRefine(p, success(opportunity))
    /\ UNCHANGED << opportunities, opportunityTags, opportunityTagAssociations,
                    opportunityBookmarks, opportunityReports, companies,
                    now, nextId >>

-----------------------------------------------------------------------------
(* reportOpportunity *)

\* the unique key of table "opportunityReports"
ReportKey(r) == << r.opportunityId, r.reporterId >>

\* lines 922-926: insert ... on conflict do nothing
InsertReport(table, row) ==
    IF \E r \in table : ReportKey(r) = ReportKey(row) THEN table
    ELSE table \cup { row }

\* lines 935-938: selectFrom('admins').where('memberId', '=', reporterId)
adminOf(reporterId) == { a \in Admins : a.memberId = reporterId }

\* line 941
shouldRemove(reports, admin) == reports >= ReportThreshold \/ admin

\* lines 922-926: the report is recorded; a report of an opportunity that
\* does not exist violates the foreign key and the call throws
ReportOpportunityInsert(p, opportunityId, reporterId, reason) ==
    /\ CanStart(p)
    /\ LET existing == { o \in opportunities : o.id = opportunityId }
           call == [ op |-> "reportOpportunity", oid |-> Some(opportunityId),
                     member |-> reporterId, reason |-> reason ]
       IN  IF existing = {}
           THEN /\ Begin(p, Merge(call, [pc |-> "done", res |-> Thrown]))
                /\ UNCHANGED opportunityReports
           ELSE /\ Begin(p, Merge(call, [ pc |-> "report_count",
                          before |-> Some(CHOOSE o \in existing : TRUE),
                          repeated |-> \E r \in opportunityReports :
                              /\ r.opportunityId = opportunityId
                              /\ r.reporterId = reporterId ]))
                /\ opportunityReports' =
                       InsertReport(opportunityReports,
                                    [ opportunityId |-> opportunityId,
                                      reporterId |-> reporterId,
                                      reason |-> reason ])
    /\ UNCHANGED << opportunities, opportunityTags, opportunityTagAssociations,
                    opportunityBookmarks, companies, jobs, now, nextId >>

\* lines 928-939: the report count and the admins row, read together
ReportOpportunityCount(p) ==
    /\ proc[p].pc = "report_count"
    /\ Step(p, [ pc |-> "report_remove",
                 reports |-> Cardinality({ r \in opportunityReports :
                                 r.opportunityId = Val(proc[p].oid) }),
                 admin |-> adminOf(proc[p].member) # {} ])
    /\ UNCHANGED << opportunities, opportunityTags, opportunityTagAssociations,
                    opportunityBookmarks, opportunityReports, companies, jobs,
                    now, nextId >>

\* lines 941-951: the removal and the return
ReportOpportunityRemove(p) ==
    /\ proc[p].pc = "report_remove"
    /\ opportunities' =
           IF shouldRemove(proc[p].reports, proc[p].admin)
           THEN { IF o.id = Val(proc[p].oid) THEN [o EXCEPT !.expiresAt = now]
                  ELSE o : o \in opportunities }
           ELSE opportunities
    /\ Step(p, [ pc |-> "done", at |-> Some(now),
                 res |-> success([ removed |->
                            shouldRemove(proc[p].reports, proc[p].admin) ]) ])
    /\ UNCHANGED << opportunityTags, opportunityTagAssociations,
                    opportunityBookmarks, opportunityReports, companies, jobs,
                    now, nextId >>

-----------------------------------------------------------------------------
(* bookmarkOpportunity *)

BookmarkRow(opportunityId, memberId) ==
    [opportunityId |-> opportunityId, studentId |-> memberId]

\* the primary key of table "opportunityBookmarks"
BookmarkKey(r) == << r.opportunityId, r.studentId >>

\* mutant: the delete without its filter on the member
BookmarkDeleteWholeOpportunity(table, opportunityId, memberId) ==
    LET gone == { b \in DOMAIN table : b.opportunityId = opportunityId }
    IN  [ numDeletedRows |-> Cardinality(gone),
          table |-> [ b \in (DOMAIN table) \ gone |-> table[b] ] ]

\* lines 173-177: delete the rows of the pair
BookmarkDelete(table, opportunityId, memberId) ==
    LET gone == { b \in DOMAIN table :
                    /\ b.opportunityId = opportunityId
                    /\ b.studentId = memberId }
    IN  [ numDeletedRows |-> Cardinality(gone),
          table |-> [ b \in (DOMAIN table) \ gone |-> table[b] ] ]

\* mutant: the insert into a table that has no primary key
BookmarkInsertUnconstrained(table, opportunityId, memberId) ==
    [ ok |-> \E o \in opportunities : o.id = opportunityId,
      table |-> table (+) SetToBag({ BookmarkRow(opportunityId, memberId) }) ]

\* lines 183-186: insert the pair's row; it is refused when the opportunity
\* does not exist (foreign key) or the pair has a row (primary key)
BookmarkInsert(table, opportunityId, memberId) ==
    [ ok |-> /\ \E o \in opportunities : o.id = opportunityId
             /\ ~\E b \in DOMAIN table :
                    BookmarkKey(b) = BookmarkKey(BookmarkRow(opportunityId, memberId)),
      table |-> table (+) SetToBag({ BookmarkRow(opportunityId, memberId) }) ]

\* lines 168-181: the transaction begins and deletes the pair's rows; when
\* it deleted one, it commits and the call returns
BookmarkOpportunityDelete(p, memberId, opportunityId) ==
    /\ CanStart(p)
    /\ LET deleted == BookmarkDelete(opportunityBookmarks, opportunityId, memberId)
           call == [ op |-> "bookmarkOpportunity", oid |-> Some(opportunityId),
                     member |-> memberId,
                     before |-> Some(opportunityBookmarks),
                     prev |-> IF proc[p].op = "bookmarkOpportunity"
                              THEN Some([ member |-> proc[p].member,
                                          oid |-> proc[p].oid,
                                          before |-> Val(proc[p].before),
                                          res |-> proc[p].res ])
                              ELSE Null ]
       IN  /\ opportunityBookmarks' = deleted.table
           /\ IF deleted.numDeletedRows > 0
              THEN Begin(p, Merge(call, [ pc |-> "done",
                                          res |-> success([empty |-> TRUE]) ]))
              ELSE Begin(p, Merge(call, [pc |-> "bookmark_insert"]))
    /\ UNCHANGED << opportunities, opportunityTags, opportunityTagAssociations,
                    opportunityReports, companies, jobs, now, nextId >>

\* lines 183-189: the insert and the commit; a refused insert rolls the
\* transaction back and the call throws
BookmarkOpportunityInsert(p) ==
    /\ proc[p].pc = "bookmark_insert"
    /\ LET inserted == BookmarkInsert(opportunityBookmarks, Val(proc[p].oid),
                                      proc[p].member)
       IN  IF inserted.ok
           THEN /\ opportunityBookmarks' = inserted.table
                /\ Step(p, [pc |-> "bookmark_track"])
           ELSE /\ opportunityBookmarks' = opportunityBookmarks
                /\ Return(p, Thrown)
    /\ UNCHANGED << opportunities, opportunityTags, opportunityTagAssociations,
                    opportunityReports, companies, jobs, now, nextId >>

\* lines 191-217: after a bookmark was created, the points for the poster
BookmarkOpportunityTrack(p) ==
    /\ proc[p].pc = "bookmark_track"
    /\ LET found == { o \in opportunities : o.id = Val(proc[p].oid) }
           opportunity == CHOOSE o \in found : TRUE
       IN  jobs' = IF found # {} /\ opportunity.postedBy # ""
                   THEN Enqueue(jobs, [ name |-> "gamification.activity.completed",
                                        type |-> "get_opportunity_bookmark",
                                        opportunityBookmarkedBy |-> proc[p].member,
                                        opportunityId |-> opportunity.id,
                                        studentId |-> opportunity.postedBy ])
                   ELSE jobs
    /\ Return(p, success([empty |-> TRUE]))
    /\ UNCHANGED << opportunities, opportunityTags, opportunityTagAssociations,
                    opportunityBookmarks, opportunityReports, companies,
                    now, nextId >>

-----------------------------------------------------------------------------
(* checkForExpiredOpportunity *)

\* mutant: the throttle applied whatever force is
CheckSelectsThrottled(o, force, t) ==
    /\ o.expiresAt > t
    /\ \/ IsNull(o.lastExpirationCheck)
       \/ Val(o.lastExpirationCheck) <= t - ThreeHours

\* mutant: no throttle
CheckSelectsUnthrottled(o, force, t) == o.expiresAt > t

\* lines 277-293: the conditions of the select, at time t
CheckSelects(o, force, t) ==
    /\ o.expiresAt > t
    /\ \/ force
       \/ IsNull(o.lastExpirationCheck)
       \/ Val(o.lastExpirationCheck) <= t - ThreeHours

\* lines 273-298: the select, and the graceful exit
CheckForExpiredSelect(p, opportunityId, force) ==
    /\ CanStart(p)
    /\ LET existing == { o \in opportunities : o.id = opportunityId }
           found == { o \in existing : CheckSelects(o, force, now) }
           call == [ op |-> "checkForExpiredOpportunity",
                     oid |-> Some(opportunityId), force |-> force,
                     at |-> Some(now),
                     before |-> IF existing = {} THEN Null
                                ELSE Some(CHOOSE o \in existing : TRUE) ]
       IN  IF found = {} \/ (CHOOSE o \in found : TRUE).link = << >>
           THEN Begin(p, Merge(call, [ pc |-> "done", res |-> success(FALSE) ]))
           ELSE Begin(p, Merge(call, [ pc |-> "check_mark",
                                       link |-> (CHOOSE o \in found : TRUE).link ]))
    /\ UNCHANGED << opportunities, opportunityTags, opportunityTagAssociations,
                    opportunityBookmarks, opportunityReports, companies, jobs,
                    now, nextId >>

\* lines 300-304: the check is recorded
CheckForExpiredMark(p) ==
    /\ proc[p].pc = "check_mark"
    /\ opportunities' =
           { IF o.id = Val(proc[p].oid)
             THEN [o EXCEPT !.lastExpirationCheck = Some(now)]
             ELSE o : o \in opportunities }
    /\ Step(p, [pc |-> "check_fetch"])
    /\ UNCHANGED << opportunityTags, opportunityTagAssociations,
                    opportunityBookmarks, opportunityReports, companies, jobs,
                    now, nextId >>

\* mutant: a failed fetch is taken as a page without content
CheckForExpiredFetchSwallowsFailure(p) ==
    /\ proc[p].pc = "check_fetch"
    /\ \E f \in FetchOutcomes :
         IF ~f.threw /\ hasExpiredPhrase(f.content)
         THEN Step(p, [ pc |-> "check_expire", fetch |-> Some(f) ])
         ELSE Step(p, [ pc |-> "done", fetch |-> Some(f), res |-> success(FALSE) ])
    /\ UNCHANGED << opportunities, opportunityTags, opportunityTagAssociations,
                    opportunityBookmarks, opportunityReports, companies, jobs,
                    now, nextId >>

\* lines 306-321: the fetch and the scan for an expired phrase
CheckForExpiredFetch(p) ==
    /\ proc[p].pc = "check_fetch"
    /\ \E f \in FetchOutcomes :
         IF f.threw
         THEN Step(p, [ pc |-> "done", fetch |-> Some(f), res |-> fail(500) ])
         ELSE IF hasExpiredPhrase(f.content)
         THEN Step(p, [ pc |-> "check_expire", fetch |-> Some(f) ])
         ELSE Step(p, [ pc |-> "done", fetch |-> Some(f), res |-> success(FALSE) ])
    /\ UNCHANGED << opportunities, opportunityTags, opportunityTagAssociations,
                    opportunityBookmarks, opportunityReports, companies, jobs,
                    now, nextId >>

\* mutant: the update without its filter on the id
CheckForExpiredExpireAll(p) ==
    /\ proc[p].pc = "check_expire"
    /\ opportunities' = { [o EXCEPT !.expiresAt = now] : o \in opportunities }
    /\ Return(p, success(TRUE))
    /\ UNCHANGED << opportunityTags, opportunityTagAssociations,
                    opportunityBookmarks, opportunityReports, companies, jobs,
                    now, nextId >>

\* lines 323-331: the opportunity is marked as expired
CheckForExpiredExpire(p) ==
    /\ proc[p].pc = "check_expire"
    /\ opportunities' =
           { IF o.id = Val(proc[p].oid) THEN [o EXCEPT !.expiresAt = now]
             ELSE o : o \in opportunities }
    /\ Return(p, success(TRUE))
    /\ UNCHANGED << opportunityTags, opportunityTagAssociations,
                    opportunityBookmarks, opportunityReports, companies, jobs,
                    now, nextId >>

-----------------------------------------------------------------------------
(* checkForExpiredOpportunities *)

\* lines 358-361
CheckExpiredJob(opportunityId) ==
    [ name |-> "opportunity.check_expired", force |-> TRUE,
      opportunityId |-> opportunityId ]

\* mutant: no condition on lastExpirationCheck
SweepCandidatesChecked(t) == { o \in opportunities : o.expiresAt > t }

\* lines 351-352: the rows the select is made among, at time t
SweepCandidates(t) ==
    { o \in opportunities : o.expiresAt > t /\ o.lastExpirationCheck = Null }

Min(a, b) == IF a < b THEN a ELSE b

\* mutant: the select without its order
SweepSelectionsUnordered(limit, t) ==
    { S \in SUBSET SweepCandidates(t) :
        Cardinality(S) = Min(limit, Cardinality(SweepCandidates(t))) }

\* lines 348-355: the results the select may give: the first `limit` of the
\* candidates by createdAt, rows of equal createdAt in any order
SweepSelections(limit, t) ==
    { S \in SUBSET SweepCandidates(t) :
        /\ Cardinality(S) = Min(limit, Cardinality(SweepCandidates(t)))
        /\ \A a \in S : \A b \in SweepCandidates(t) \ S :
               a.createdAt <= b.createdAt }

\* lines 345-365: the select and a job for each row of its result
CheckForExpiredOpportunities(p, limit) ==
    /\ CanStart(p)
    /\ \E S \in SweepSelections(limit, now) :
         /\ jobs' = jobs (+) SetToBag({ CheckExpiredJob(o.id) : o \in S })
         /\ Begin(p, [ op |-> "checkForExpiredOpportunities", limit |-> limit,
                       returned |-> Some({ o.id : o \in S }),
                       pc |-> "done", res |-> success([empty |-> TRUE]) ])
    /\ UNCHANGED << opportunities, opportunityTags, opportunityTagAssociations,
                    opportunityBookmarks, opportunityReports, companies,
                    now, nextId >>

-----------------------------------------------------------------------------
(* opportunityWorker *)

\* lines 1177-1179: a job 'opportunity.check_expired' that was handed to the
\* scheduler is run
WorkerCheckExpired(p) ==
    \E j \in DOMAIN jobs :
        /\ j.name = "opportunity.check_expired"
        /\ CheckForExpiredSelect(p, j.opportunityId, j.force)

\* lines 1188-1192: what becomes of the job, given the result of its handler
WorkerOutcome(result) ==
    IF result.kind = "success" THEN "completed" ELSE "failed"

-----------------------------------------------------------------------------
(* deleteOpportunity *)

\* mutant: an admin record counts whether soft-deleted or not
hasWritePermissionAsAnyAdmin(memberId, opportunityId) ==
    \E o \in opportunities :
        /\ o.id = opportunityId
        /\ \/ o.postedBy = memberId
           \/ \E a \in Admins : a.memberId = memberId

\* lines 1137-1158
hasOpportunityWritePermission(memberId, opportunityId) ==
    \E o \in opportunities :
        /\ o.id = opportunityId
        /\ \/ o.postedBy = memberId
           \/ \E a \in Admins : a.memberId = memberId /\ a.deletedAt = Null

\* lines 551-567: the permission check, made when a memberId is given
DeleteOpportunityPermission(p, memberId, opportunityId) ==
    /\ CanStart(p)
    /\ LET call == [ op |-> "deleteOpportunity", oid |-> Some(opportunityId),
                     member |-> memberId,
                     snapshot |-> Some([
                         opportunities |-> opportunities,
                         opportunityTagAssociations |-> opportunityTagAssociations,
                         opportunityBookmarks |-> opportunityBookmarks,
                         opportunityReports |-> opportunityReports ]) ]
       IN  IF memberId # "" /\ ~hasOpportunityWritePermission(memberId, opportunityId)
           THEN Begin(p, Merge(call, [pc |-> "done", res |-> fail(403)]))
           ELSE Begin(p, Merge(call, [pc |-> "delete_transaction"]))
    /\ UNCHANGED << opportunities, opportunityTags, opportunityTagAssociations,
                    opportunityBookmarks, opportunityReports, companies, jobs,
                    now, nextId >>

\* lines 569-576: the delete
DeleteOpportunityTransaction(p) ==
    /\ proc[p].pc = "delete_transaction"
    /\ DeleteFromOpportunities(Val(proc[p].oid))
    /\ Return(p, success([id |-> Val(proc[p].oid)]))
    /\ UNCHANGED << opportunityTags, companies, jobs, now, nextId >>

-----------------------------------------------------------------------------
(* Time passes *)

Tick ==
    /\ \E t \in (now + 1)..MaxTime : now' = t
    /\ UNCHANGED << opportunities, opportunityTags, opportunityTagAssociations,
                    opportunityBookmarks, opportunityReports, companies, jobs,
                    nextId, calls, proc >>

-----------------------------------------------------------------------------
(* Specifications *)

\* the board as deployed: the tag catalog, nothing posted yet
Deployed ==
    /\ opportunities = {}
    /\ opportunityTags = TagCatalog
    /\ opportunityTagAssociations = {}
    /\ opportunityBookmarks = EmptyBag
    /\ opportunityReports = {}
    /\ companies = {}
    /\ jobs = EmptyBag
    /\ now = 0
    /\ nextId = 1
    /\ proc = [p \in Procs |-> NoCall]

\* link submissions made one after another by one caller
NextSubmitSeq ==
    \/ \E link \in AddLinks, postedBy \in Posters :
            AddOpportunityLookup("p1", link, postedBy)
    \/ AddOpportunityInsert("p1")
    \/ AddOpportunityFetch("p1")
    \/ RefineOpportunityExtract("p1")
    \/ RefineOpportunityNotify("p1")
    \/ Tick

InitSubmitSeq == Deployed /\ calls = MaxSubmitCalls

\* chat-sourced creations made one after another by the worker
NextSlack ==
    \/ \E j \in SlackJobs, sendNotification \in BOOLEAN :
            CreateFromSlackLookup("p1", j[1], j[2], sendNotification)
    \/ CreateFromSlackInsert("p1")
    \/ RefineOpportunityExtract("p1")
    \/ RefineOpportunityNotify("p1")

InitSlack == Deployed /\ calls = MaxSubmitCalls

SpecSlack == InitSlack /\ [][NextSlack]_vars

SpecSubmitSeq == InitSubmitSeq /\ [][NextSubmitSeq]_vars

\* link submissions and chat-sourced creations by concurrent callers
NextSubmit ==
    \/ \E p \in Procs, link \in AddLinks, postedBy \in Posters :
            AddOpportunityLookup(p, link, postedBy)
    \/ \E p \in Procs : AddOpportunityInsert(p)
    \/ \E p \in Procs : AddOpportunityFetch(p)
    \/ \E p \in Procs, m \in SlackJobs, sendNotification \in BOOLEAN :
            CreateFromSlackLookup(p, m[1], m[2], sendNotification)
    \/ \E p \in Procs : CreateFromSlackInsert(p)
    \/ \E p \in Procs : RefineOpportunityExtract(p)
    \/ \E p \in Procs : RefineOpportunityNotify(p)

InitSubmit == Deployed /\ calls = MaxConcurrentCalls

SpecSubmit == InitSubmit /\ [][NextSubmit]_vars

\* a link that is not posted yet
LinkK == <<"h","t","t","p",":","/","/","x","/","k">>

LinkedinJ ==
    <<"h","t","t","p","s",":","/","/","l","i","n","k","e","d","i","n",".","c","o","m","/","j">>

\* a board with two placeholders, as left by an addOpportunity whose fetch
\* gave nothing and by a chat-sourced creation of an access-gated link
TwoPlaceholders ==
    /\ now = 0
    /\ opportunities =
           { Placeholder(1, LinkK, "m1", Null, Null),
             Placeholder(2, LinkedinJ, "m2", Some("C1"), Some("s5")) }
    /\ opportunityTags = TagCatalog
    /\ opportunityTagAssociations = {}
    /\ opportunityReports = {}
    /\ companies = {}
    /\ jobs = EmptyBag
    /\ nextId = 3
    /\ proc = [p \in Procs |-> NoCall]

\* the ids calls are made with: the two stored ones and one that is not
OpportunityIds == { 1, 2, 9 }

\* refinements of stored opportunities by concurrent callers
NextRefine ==
    \/ \E p \in Procs, id \in OpportunityIds :
            RefineOpportunityCall(p, id, Null, Null)
    \/ \E p \in Procs : RefineOpportunityExtract(p)
    \/ \E p \in Procs : RefineOpportunityNotify(p)
    \/ Tick

InitRefine ==
    /\ TwoPlaceholders
    /\ opportunityBookmarks = EmptyBag
    /\ calls = MaxConcurrentCalls

SpecRefine == InitRefine /\ [][NextRefine]_vars

\* refinements made one after another, with and without the identifiers of
\* the chat the opportunity came from
NextRefineSeq ==
    \/ \E id \in OpportunityIds, slackChannelId \in { Null, Some("C1") },
          slackUserId \in { Null, Some("U2") } :
            RefineOpportunityCall("p1", id, slackChannelId, slackUserId)
    \/ RefineOpportunityExtract("p1")
    \/ RefineOpportunityNotify("p1")

InitRefineSeq ==
    /\ TwoPlaceholders
    /\ opportunityBookmarks = EmptyBag
    /\ calls = MaxSubmitCalls

SpecRefineSeq == InitRefineSeq /\ [][NextRefineSeq]_vars

Reasons == { "spam", "closed" }

\* reports made one after another
NextReport ==
    \/ \E id \in OpportunityIds, m \in Members, reason \in Reasons :
            ReportOpportunityInsert("p1", id, m, reason)
    \/ ReportOpportunityCount("p1")
    \/ ReportOpportunityRemove("p1")
    \/ Tick

InitReport ==
    /\ TwoPlaceholders
    /\ opportunityBookmarks = EmptyBag
    /\ calls = MaxSeqCalls

SpecReport == InitReport /\ [][NextReport]_vars

Bookmarkers == { "m1", "m2" }

\* bookmark calls made one after another; m2 has bookmarked opportunity 2
NextBookmark ==
    \/ \E id \in OpportunityIds, m \in Bookmarkers :
            BookmarkOpportunityDelete("p1", m, id)
    \/ BookmarkOpportunityInsert("p1")
    \/ BookmarkOpportunityTrack("p1")
    \/ Tick

InitBookmark ==
    /\ TwoPlaceholders
    /\ opportunityBookmarks = SetToBag({ BookmarkRow(2, "m2") })
    /\ calls = MaxSeqCalls

SpecBookmark == InitBookmark /\ [][NextBookmark]_vars

\* bookmark calls made concurrently
NextBookmarkRace ==
    \E p \in Procs :
        \/ \E id \in OpportunityIds, m \in Bookmarkers :
                BookmarkOpportunityDelete(p, m, id)
        \/ BookmarkOpportunityInsert(p)
        \/ BookmarkOpportunityTrack(p)

InitBookmarkRace ==
    /\ TwoPlaceholders
    /\ opportunityBookmarks = SetToBag({ BookmarkRow(2, "m2") })
    /\ calls = MaxConcurrentCalls

SpecBookmarkRace == InitBookmarkRace /\ [][NextBookmarkRace]_vars

\* expiry checks made one after another, three or four hours after the
\* board was set up: opportunity 1 was never checked, or was checked at
\* hour 0 or 1; opportunity 2 expired at hour 2
NextCheck ==
    \/ \E id \in OpportunityIds, force \in BOOLEAN :
            CheckForExpiredSelect("p1", id, force)
    \/ CheckForExpiredMark("p1")
    \/ CheckForExpiredFetch("p1")
    \/ CheckForExpiredExpire("p1")

InitCheck ==
    /\ now \in { ThreeHours, ThreeHours + 1 }
    /\ \E checked \in { Null, Some(0), Some(1) } :
           opportunities =
               { [ Placeholder(1, LinkK, "m1", Null, Null)
                     EXCEPT !.createdAt = 0, !.expiresAt = OneMonth,
                            !.lastExpirationCheck = checked ],
                 [ Placeholder(2, LinkedinJ, "m2", Some("C1"), Some("s5"))
                     EXCEPT !.createdAt = 0, !.expiresAt = 2 ] }
    /\ opportunityTags = TagCatalog
    /\ opportunityTagAssociations = {}
    /\ opportunityBookmarks = EmptyBag
    /\ opportunityReports = {}
    /\ companies = {}
    /\ jobs = EmptyBag
    /\ nextId = 3
    /\ calls = MaxSeqCalls
    /\ proc = [p \in Procs |-> NoCall]

SpecCheck == InitCheck /\ [][NextCheck]_vars

\* expiry checks made by concurrent workers on the same board
NextCheckRace ==
    \E p \in Procs :
        \/ \E id \in OpportunityIds, force \in BOOLEAN :
                CheckForExpiredSelect(p, id, force)
        \/ CheckForExpiredMark(p)
        \/ CheckForExpiredFetch(p)
        \/ CheckForExpiredExpire(p)

InitCheckRace ==
    /\ now \in { ThreeHours, ThreeHours + 1 }
    /\ \E checked \in { Null, Some(0), Some(1) } :
           opportunities =
               { [ Placeholder(1, LinkK, "m1", Null, Null)
                     EXCEPT !.createdAt = 0, !.expiresAt = OneMonth,
                            !.lastExpirationCheck = checked ],
                 [ Placeholder(2, LinkedinJ, "m2", Some("C1"), Some("s5"))
                     EXCEPT !.createdAt = 0, !.expiresAt = 2 ] }
    /\ opportunityTags = TagCatalog
    /\ opportunityTagAssociations = {}
    /\ opportunityBookmarks = EmptyBag
    /\ opportunityReports = {}
    /\ companies = {}
    /\ jobs = EmptyBag
    /\ nextId = 3
    /\ calls = MaxConcurrentCalls
    /\ proc = [p \in Procs |-> NoCall]

SpecCheckRace == InitCheckRace /\ [][NextCheckRace]_vars

\* the limits the sweep is run with
Limits == { 0, 1, 2 }

\* the sweep, run by one worker, and the checks it asks for, run by another;
\* of the four opportunities, 1 and 3 are candidates of the sweep, 2 has
\* expired and 4 was checked before
NextSweep ==
    \/ \E limit \in Limits : CheckForExpiredOpportunities("p1", limit)
    \/ WorkerCheckExpired("p2")
    \/ CheckForExpiredMark("p2")
    \/ CheckForExpiredFetch("p2")
    \/ CheckForExpiredExpire("p2")

InitSweep ==
    /\ now = ThreeHours
    /\ \E created \in { 1, 2 } :
           opportunities =
               { [ Placeholder(1, LinkK, "m1", Null, Null)
                     EXCEPT !.createdAt = 1, !.expiresAt = OneMonth ],
                 [ Placeholder(2, LinkedinJ, "m2", Some("C1"), Some("s5"))
                     EXCEPT !.createdAt = 0, !.expiresAt = 2 ],
                 [ Placeholder(3, LinkJ, "m1", Null, Null)
                     EXCEPT !.createdAt = created, !.expiresAt = OneMonth ],
                 [ Placeholder(4, LinkWild, "m2", Null, Null)
                     EXCEPT !.createdAt = 0, !.expiresAt = OneMonth,
                            !.lastExpirationCheck = Some(0) ] }
    /\ opportunityTags = TagCatalog
    /\ opportunityTagAssociations = {}
    /\ opportunityBookmarks = EmptyBag
    /\ opportunityReports = {}
    /\ companies = {}
    /\ jobs = EmptyBag
    /\ nextId = 5
    /\ calls = MaxSeqCalls
    /\ proc = [p \in Procs |-> NoCall]

SpecSweep == InitSweep /\ [][NextSweep]_vars

\* no call is in progress
NoCallInProgress == \A q \in Procs : proc[q].pc \in { "idle", "done" }

\* a report is made while no other call is in progress
ReportWhenQuiet(p) ==
    /\ NoCallInProgress
    /\ \E id \in OpportunityIds, m \in Members, reason \in Reasons :
           ReportOpportunityInsert(p, id, m, reason)

\* an expiry check is made while no other call is in progress
CheckWhenQuiet(p) ==
    /\ NoCallInProgress
    /\ \E id \in OpportunityIds, force \in BOOLEAN :
           CheckForExpiredSelect(p, id, force)

\* the refine form is submitted while no other call is in progress
RefineWhenQuiet(p) ==
    /\ NoCallInProgress
    /\ \E id \in OpportunityIds : RefineOpportunityCall(p, id, Null, Null)

\* moderation (reports, expiry checks) by one caller and refinements from
\* the refine form by another, one call at a time
NextModerate ==
    \/ ReportWhenQuiet("p1")
    \/ CheckWhenQuiet("p1")
    \/ RefineWhenQuiet("p2")
    \/ ReportOpportunityCount("p1")
    \/ ReportOpportunityRemove("p1")
    \/ CheckForExpiredMark("p1")
    \/ CheckForExpiredFetch("p1")
    \/ CheckForExpiredExpire("p1")
    \/ RefineOpportunityExtract("p2")
    \/ RefineOpportunityNotify("p2")
    \/ Tick

InitModerate ==
    /\ TwoPlaceholders
    /\ opportunityBookmarks = EmptyBag
    /\ calls = MaxSubmitCalls

SpecModerate == InitModerate /\ [][NextModerate]_vars

\* deletions made one after another on a board whose opportunities have
\* tags, bookmarks and reports
Deleters == Members \cup { "" }

NextDelete ==
    \/ \E id \in OpportunityIds, m \in Deleters :
            DeleteOpportunityPermission("p1", m, id)
    \/ DeleteOpportunityTransaction("p1")
    \/ Tick

InitDelete ==
    /\ now = 0
    /\ opportunities =
           { Placeholder(1, LinkK, "m1", Null, Null),
             Placeholder(2, LinkedinJ, "m2", Some("C1"), Some("s5")) }
    /\ opportunityTags = TagCatalog
    /\ opportunityTagAssociations =
           { [opportunityId |-> 1, tagId |-> "t1"],
             [opportunityId |-> 2, tagId |-> "t1"],
             [opportunityId |-> 2, tagId |-> "t2"] }
    /\ opportunityBookmarks =
           SetToBag({ BookmarkRow(1, "m2"), BookmarkRow(2, "m2"),
                      BookmarkRow(2, "m1") })
    /\ opportunityReports =
           { [opportunityId |-> 1, reporterId |-> "m2", reason |-> "r1"],
             [opportunityId |-> 2, reporterId |-> "m1", reason |-> "r1"] }
    /\ companies = {}
    /\ jobs = EmptyBag
    /\ nextId = 3
    /\ calls = MaxSeqCalls
    /\ proc = [p \in Procs |-> NoCall]

SpecDelete == InitDelete /\ [][NextDelete]_vars


Quiet == \A p \in Procs : proc[p].pc \in { "idle", "done" }

\* a link in which ILIKE finds no wildcard and no escape character
PlainLink(link) == \A i \in 1..Len(link) : link[i] \notin { "%", "_", "\\" }

\* two texts equal when the case of their letters is ignored
SameIgnoringCase(a, b) ==
    /\ Len(a) = Len(b)
    /\ \A i \in 1..Len(a) : LowerChar(a[i]) = LowerChar(b[i])

\* the page text holds one of the expired phrases, in any case of letters
ContainsExpiredPhrase(content) ==
    \E n \in 1..Len(EXPIRED_PHRASES), i \in 1..Len(content) :
        /\ i + Len(EXPIRED_PHRASES[n]) - 1 <= Len(content)
        /\ \A k \in 1..Len(EXPIRED_PHRASES[n]) :
               LowerChar(content[i + k - 1]) = EXPIRED_PHRASES[n][k]

RoleExpired == <<"R","o","l","e"," ","E","X","P","I","R","E","D">>

ApplyNow == <<"A","p","p","l","y"," ","n","o","w">>

(* C1: after addOpportunity calls made one after another, no two           *)
(* opportunity rows have the same link when the case of letters is         *)
(* ignored (the second submission of a link is refused with 409 and        *)
(* inserts nothing).                                                       *)
C1_OneRowPerLink ==
    \A a, b \in opportunities :
        a.id # b.id => ~SameIgnoringCase(a.link, b.link)

(* C2: once two concurrent submissions of one link have both finished,     *)
(* no two opportunity rows have that link (for links on which the lookup   *)
(* is an exact case-insensitive comparison, so that a second row can only  *)
(* come from the interleaving).                                            *)
C2_OneRowPerLinkAfterRace ==
    Quiet =>
        \A a, b \in opportunities :
            (a.id # b.id /\ PlainLink(a.link)) => a.link # b.link

(* C3: when addOpportunity fetched content that holds an expired phrase    *)
(* (in any case of letters), the call has returned fail 404, no row with   *)
(* the id it created exists, and refineOpportunity was not invoked.        *)
C3_ExpiredContentIsRejected ==
    \A p \in Procs :
        ( /\ proc[p].op = "addOpportunity"
          /\ proc[p].fetch # Null
          /\ ~Val(proc[p].fetch).threw
          /\ ContainsExpiredPhrase(Val(proc[p].fetch).content) )
        => /\ proc[p].pc = "done"
           /\ proc[p].res = fail(404)
           /\ ~\E o \in opportunities : o.id = Val(proc[p].oid)
           /\ proc[p].refined = Pending
           /\ proc[p].completion = Null

C3_Witness ==
    \E p \in Procs :
        /\ proc[p].op = "addOpportunity"
        /\ proc[p].fetch = Some([threw |-> FALSE, content |-> RoleExpired])
        /\ proc[p].res = fail(404)
        /\ opportunities # {}

(* C4: an addOpportunity that passed the duplicate check and detected no   *)
(* expired phrase returns success with the placeholder's id, and the       *)
(* placeholder row is still stored, whatever the fetch, the completion     *)
(* or the refinement transaction did.                                      *)
C4_SubmissionNeverLost ==
    \A p \in Procs :
        ( /\ proc[p].op = "addOpportunity"
          /\ proc[p].pc = "done"
          /\ proc[p].oid # Null
          /\ ~( /\ proc[p].fetch # Null
                /\ ContainsExpiredPhrase(Val(proc[p].fetch).content) ) )
        => /\ proc[p].res = success([id |-> Val(proc[p].oid)])
           /\ \E o \in opportunities : o.id = Val(proc[p].oid)

\* the stored row with the given id (there is one)
RowOf(id) == CHOOSE o \in opportunities : o.id = id

JustRefined(p) == proc[p].pc = "refine" /\ proc'[p].pc = "refine_notify"

(* C5: refinedAt of an opportunity changes at most once over any           *)
(* interleaving of refineOpportunity calls: a refinement that commits      *)
(* leaves the row with a refinedAt, a null refinedAt can only become the   *)
(* time of the step, and a refinedAt that is set never changes again.      *)
C5_RefinedAtSetOnce ==
    [][ /\ \A a \in opportunities : \A b \in opportunities' :
              a.id = b.id =>
                  IF a.refinedAt = Null
                  THEN b.refinedAt \in { Null, Some(now) }
                  ELSE b.refinedAt = a.refinedAt
        /\ \A p \in Procs :
              JustRefined(p) =>
                  \A b \in opportunities' :
                      b.id = Val(proc[p].oid) => b.refinedAt # Null
      ]_vars

\* a second refinement has committed, later than the first one
C5_Witness ==
    \E p \in Procs :
        /\ proc[p].returned # Null
        /\ Val(proc[p].returned).refinedAt # Null
        /\ Val(Val(proc[p].returned).refinedAt) < Val(proc[p].at)
        /\ proc[p].refined.kind = "success"

(* C6: a refinement that commits with an AI output whose expiresAt is      *)
(* null leaves expiresAt of the row as it was, and writes the extracted    *)
(* title and description.                                                  *)
C6_NullExpiryKeepsExpiresAt ==
    [][ \A p \in Procs :
          ( JustRefined(p) /\ IsNull(Val(proc'[p].completion).value.expiresAt) )
          => \A a \in opportunities : \A b \in opportunities' :
                 (a.id = Val(proc[p].oid) /\ b.id = a.id)
                 => /\ b.expiresAt = a.expiresAt
                    /\ b.title = Val(Val(proc'[p].completion).value.title)
                    /\ b.description =
                           Val(Val(proc'[p].completion).value.description)
      ]_vars

\* a null-expiry refinement of a row whose expiry an earlier one had set
C6_Witness ==
    \E p \in Procs :
        /\ proc[p].pc = "refine_notify"
        /\ Val(proc[p].completion).value = JsonFull
        /\ Val(proc[p].before).expiresAt = 1
        /\ RowOf(Val(proc[p].oid)).expiresAt = 1
        /\ RowOf(Val(proc[p].oid)).title = "Engineer"

\* the member is an admin whose record is not soft-deleted
ActiveAdmin(m) == \E a \in Admins : a.memberId = m /\ a.deletedAt = Null

\* the member's only admin record is soft-deleted
FormerAdmin(m) ==
    /\ \E a \in Admins : a.memberId = m /\ a.deletedAt # Null
    /\ ~ActiveAdmin(m)

ReportCount(id) == Cardinality({ r \in opportunityReports : r.opportunityId = id })

Reported(p) ==
    /\ proc[p].op = "reportOpportunity"
    /\ proc[p].pc = "done"
    /\ proc[p].res.kind = "success"

(* C7: reportOpportunity returns removed = true and sets expiresAt to the  *)
(* time of the call exactly when, the report recorded, the opportunity     *)
(* has at least 2 reports or the reporter is an (active) admin; otherwise  *)
(* it returns removed = false and expiresAt is what it was.                *)
C7_RemovalRule ==
    \A p \in Procs :
        Reported(p) =>
            LET id == Val(proc[p].oid)
                remove == ReportCount(id) >= 2 \/ ActiveAdmin(proc[p].member)
            IN  /\ proc[p].res.data.removed = remove
                /\ RowOf(id).expiresAt =
                       IF remove THEN Val(proc[p].at)
                       ELSE Val(proc[p].before).expiresAt

(* C8: the first report of an opportunity, made by a member whose admin    *)
(* record is soft-deleted, returns removed = false and leaves expiresAt    *)
(* as it was.                                                              *)
C8_FormerAdminIsNoAdmin ==
    \A p \in Procs :
        ( /\ Reported(p)
          /\ FormerAdmin(proc[p].member)
          /\ ReportCount(Val(proc[p].oid)) = 1 )
        => /\ proc[p].res.data.removed = FALSE
           /\ RowOf(Val(proc[p].oid)).expiresAt = Val(proc[p].before).expiresAt

\* the part of C9 that is about the stored rows: one row per reporter of an
\* opportunity, and every reporter whose call went through has a row
OneReportPerReporter ==
    /\ \A a, b \in opportunityReports :
           (a.opportunityId = b.opportunityId /\ a.reporterId = b.reporterId)
               => a = b
    /\ \A p \in Procs :
           (proc[p].op = "reportOpportunity" /\ proc[p].res.kind # "throw")
               => \E r \in opportunityReports :
                      /\ r.opportunityId = Val(proc[p].oid)
                      /\ r.reporterId = proc[p].member

(* C9: the stored reports of an opportunity are one per distinct reporter, *)
(* and a member who is no (active) admin and repeats their own report of   *)
(* an opportunity with one report leaves the count at one, is answered     *)
(* removed = false and leaves expiresAt as it was.                         *)
C9_ReportsIdempotent ==
    /\ OneReportPerReporter
    /\ \A p \in Procs :
           ( /\ Reported(p)
             /\ proc[p].repeated
             /\ ~ActiveAdmin(proc[p].member) )
           => ( ReportCount(Val(proc[p].oid)) = 1
                => /\ proc[p].res.data.removed = FALSE
                   /\ RowOf(Val(proc[p].oid)).expiresAt =
                          Val(proc[p].before).expiresAt )

(* C10: two bookmarkOpportunity calls in sequence for the same (member,    *)
(* opportunity) pair: the first changes whether the pair has a bookmark    *)
(* row and changes no other pair, the second restores the table to what    *)
(* it was before the first.                                                *)
SamePairTwice(p) ==
    /\ proc[p].op = "bookmarkOpportunity"
    /\ proc[p].prev # Null
    /\ Val(proc[p].prev).member = proc[p].member
    /\ Val(proc[p].prev).oid = proc[p].oid
    /\ Val(proc[p].prev).res.kind = "success"
    /\ proc[p].pc \in { "bookmark_track", "done" }
    /\ proc[p].res.kind # "throw"

C10_ToggleIsSelfInverse ==
    \A p \in Procs :
        SamePairTwice(p) =>
            LET first == Val(proc[p].prev).before
                between == Val(proc[p].before)
                pair == BookmarkRow(Val(proc[p].oid), proc[p].member)
            IN  /\ (pair \in DOMAIN between) # (pair \in DOMAIN first)
                /\ \A x \in ((DOMAIN first) \cup (DOMAIN between)) \ { pair } :
                       /\ x \in DOMAIN first /\ x \in DOMAIN between
                       /\ first[x] = between[x]
                /\ opportunityBookmarks = first

\* absent -> present -> absent, both calls returned
C10_Witness ==
    \E p \in Procs :
        /\ SamePairTwice(p)
        /\ proc[p].pc = "done"
        /\ BookmarkRow(Val(proc[p].oid), proc[p].member)
               \notin DOMAIN Val(proc[p].prev).before
        /\ BookmarkRow(Val(proc[p].oid), proc[p].member)
               \in DOMAIN Val(proc[p].before)
        /\ BookmarkRow(2, "m2") \in DOMAIN opportunityBookmarks

Checking(p) ==
    /\ proc[p].op = "checkForExpiredOpportunity"
    /\ proc[p].before # Null

\* how long before the call the opportunity was last checked
CheckAge(p) ==
    Val(proc[p].at) - Val(Val(proc[p].before).lastExpirationCheck)

(* C12: checkForExpiredOpportunity with force = false on an opportunity    *)
(* whose lastExpirationCheck is less than 3 hours old returns              *)
(* success(false) at once: no fetch, lastExpirationCheck and expiresAt as  *)
(* they were.                                                              *)
C12_ThrottledCheckIsNoOp ==
    \A p \in Procs :
        ( /\ Checking(p)
          /\ ~proc[p].force
          /\ Val(proc[p].before).lastExpirationCheck # Null
          /\ CheckAge(p) < ThreeHours )
        => /\ proc[p].pc = "done"
           /\ proc[p].res = success(FALSE)
           /\ proc[p].fetch = Null
           /\ RowOf(Val(proc[p].oid)) = Val(proc[p].before)

\* an unforced check of an unexpired opportunity checked two hours before
C12_Witness ==
    \E p \in Procs :
        /\ Checking(p)
        /\ ~proc[p].force
        /\ Val(proc[p].before).lastExpirationCheck # Null
        /\ CheckAge(p) = ThreeHours - 1
        /\ Val(proc[p].before).expiresAt > Val(proc[p].at)
        /\ proc[p].pc = "done"

(* C13 as stated: a forced check of any stored opportunity that has a      *)
(* link, whatever its lastExpirationCheck, does not return without having  *)
(* fetched the link's content.                                             *)
C13_ForcedCheckAlwaysFetches ==
    \A p \in Procs :
        ( /\ Checking(p)
          /\ proc[p].force
          /\ Val(proc[p].before).link # << >>
          /\ proc[p].pc = "done" )
        => proc[p].fetch # Null

(* C13 amended: a forced check of a stored opportunity that has a link     *)
(* and has not expired, whatever its lastExpirationCheck, does not return  *)
(* without having fetched the link's content.                              *)
C13_ForcedCheckFetchesUnexpired ==
    \A p \in Procs :
        ( /\ Checking(p)
          /\ proc[p].force
          /\ Val(proc[p].before).link # << >>
          /\ Val(proc[p].before).expiresAt > Val(proc[p].at)
          /\ proc[p].pc = "done" )
        => proc[p].fetch # Null

\* a forced check, one hour after the last one, has fetched
C13_Witness ==
    \E p \in Procs :
        /\ Checking(p)
        /\ proc[p].force
        /\ Val(proc[p].before).lastExpirationCheck # Null
        /\ CheckAge(p) < ThreeHours
        /\ Val(proc[p].before).expiresAt > Val(proc[p].at)
        /\ proc[p].pc = "done"
        /\ proc[p].fetch # Null

\* a deleteOpportunity call of process p that has returned
Deleted(p) ==
    /\ proc[p].op = "deleteOpportunity"
    /\ proc[p].pc = "done"

\* the four tables that hold an opportunity and what refers to it
Tables ==
    [ opportunities |-> opportunities,
      opportunityTagAssociations |-> opportunityTagAssociations,
      opportunityBookmarks |-> opportunityBookmarks,
      opportunityReports |-> opportunityReports ]

(* C14: after deleteOpportunity has succeeded for an opportunity, the      *)
(* opportunity row is gone, no tag association, bookmark or report refers  *)
(* to its id, and the rows of every other opportunity are as they were     *)
(* when the call was made.                                                 *)
C14_DeleteCascades ==
    \A p \in Procs :
        (Deleted(p) /\ proc[p].res.kind = "success") =>
            LET id == Val(proc[p].oid)
                was == Val(proc[p].snapshot)
            IN  /\ ~\E o \in opportunities : o.id = id
                /\ ~\E a \in opportunityTagAssociations : a.opportunityId = id
                /\ ~\E b \in DOMAIN opportunityBookmarks : b.opportunityId = id
                /\ ~\E r \in opportunityReports : r.opportunityId = id
                /\ opportunities = { o \in was.opportunities : o.id # id }
                /\ opportunityTagAssociations =
                       { a \in was.opportunityTagAssociations : a.opportunityId # id }
                /\ \A b \in DOMAIN was.opportunityBookmarks :
                       b.opportunityId # id =>
                           /\ b \in DOMAIN opportunityBookmarks
                           /\ opportunityBookmarks[b] = was.opportunityBookmarks[b]
                /\ opportunityReports =
                       { r \in was.opportunityReports : r.opportunityId # id }

\* opportunity 1, which had a tag, a bookmark and a report, was deleted, and
\* opportunity 2 still has its own
C14_Witness ==
    \E p \in Procs :
        /\ Deleted(p) /\ proc[p].res.kind = "success"
        /\ Val(proc[p].oid) = 1
        /\ \E a \in Val(proc[p].snapshot).opportunityTagAssociations :
               a.opportunityId = 1
        /\ \E r \in Val(proc[p].snapshot).opportunityReports : r.opportunityId = 1
        /\ BookmarkRow(1, "m2") \in DOMAIN Val(proc[p].snapshot).opportunityBookmarks
        /\ BookmarkRow(2, "m2") \in DOMAIN opportunityBookmarks

\* the caller gave a memberId that is neither the poster's nor an active
\* admin's
NotPermitted(p) ==
    /\ proc[p].member # ""
    /\ ~ActiveAdmin(proc[p].member)
    /\ ~\E o \in Val(proc[p].snapshot).opportunities :
           o.id = Val(proc[p].oid) /\ o.postedBy = proc[p].member

(* C15: deleteOpportunity with a memberId that is neither the poster's     *)
(* nor an active admin's returns a failure with code 403 and deletes       *)
(* nothing; with the poster's or an active admin's memberId, or with       *)
(* none, it returns success and the opportunity is gone.                   *)
C15_DeleteNeedsPermission ==
    \A p \in Procs :
        Deleted(p) =>
            IF NotPermitted(p)
            THEN /\ proc[p].res = fail(403)
                 /\ Tables = Val(proc[p].snapshot)
            ELSE (\E o \in Val(proc[p].snapshot).opportunities :
                      o.id = Val(proc[p].oid))
                 => /\ proc[p].res = success([id |-> Val(proc[p].oid)])
                    /\ ~\E o \in opportunities : o.id = Val(proc[p].oid)

\* a member whose admin record is soft-deleted was refused the deletion of
\* an opportunity posted by somebody else
C15_Witness ==
    \E p \in Procs :
        /\ Deleted(p)
        /\ FormerAdmin(proc[p].member)
        /\ \E o \in opportunities : o.id = Val(proc[p].oid)
        /\ proc[p].res = fail(403)

\* process p takes the step of refineOpportunity that follows the
\* completion, and c is the completion it got
Refines(p, c) ==
    /\ proc[p].pc = "refine"
    /\ proc'[p].pc # "refine"
    /\ c = Val(proc'[p].completion)

\* completions that are no JSON, or JSON of the wrong structure (a title of
\* more than 100 characters, an empty list of tags)
Malformed(c) ==
    c.ok /\ (~c.json \/ c.value \in { JsonLongTitle, JsonNoTags })

\* completions with a title and a description
Usable(c) ==
    /\ c.ok /\ c.json
    /\ c.value \in { JsonFull, JsonDated, JsonLater, JsonBadDate, JsonNoMatch }

\* the associations of opportunity id with the catalog tags named in names
AssociationsFor(id, names) ==
    { [opportunityId |-> id, tagId |-> t.id] :
        t \in { x \in opportunityTags : \E i \in 1..Len(names) : x.name = names[i] } }

(* C16: when the completion is not valid JSON or is not of the expected    *)
(* structure, refineOpportunity returns a failure with code 400 and the    *)
(* opportunities, the tag associations, the tag catalog and the companies  *)
(* are unchanged.                                                          *)
C16_MalformedOutputChangesNothing ==
    [][ \A p \in Procs : \A c \in Completions :
          (Refines(p, c) /\ Malformed(c))
          => /\ proc'[p].refined = fail(400)
             /\ UNCHANGED << opportunities, opportunityTagAssociations,
                             opportunityTags, companies >>
      ]_vars

\* a refinement of a stored opportunity got a title of 101 characters
C16_Witness ==
    \E p \in Procs :
        /\ proc[p].op = "refineOpportunity"
        /\ proc[p].completion # Null
        /\ Val(proc[p].completion).value = JsonLongTitle
        /\ proc[p].res = fail(400)
        /\ \E o \in opportunities : o.id = Val(proc[p].oid)

(* C17: for a usable AI output the transaction of refineOpportunity is     *)
(* all-or-nothing: either the title, description, company and expiry are   *)
(* written, the company exists, refinedAt is set and the associations of   *)
(* the matching tags are there, or nothing has changed.                    *)
C17_RefinementIsAtomic ==
    [][ \A p \in Procs : \A c \in Completions :
          (Refines(p, c) /\ Usable(c))
          => LET id == Val(proc[p].oid)
                 data == c.value
             IN  \/ UNCHANGED << opportunities, opportunityTagAssociations,
                                 opportunityTags, companies >>
                 \/ \E o \in opportunities' :
                        /\ o.id = id
                        /\ o.title = Val(data.title)
                        /\ o.description = Val(data.description)
                        /\ o.companyId = data.company
                        /\ ~IsNull(data.company) => Val(data.company) \in companies'
                        /\ ~IsNull(data.expiresAt) =>
                               o.expiresAt = NewDate(Val(data.expiresAt)).time
                        /\ o.refinedAt # Null
                        /\ ~IsNull(data.tags) =>
                               AssociationsFor(id, Val(data.tags))
                                   \subseteq opportunityTagAssociations'
      ]_vars

\* a refinement with company, title, description and tags has committed
C17_Witness ==
    \E p \in Procs :
        /\ proc[p].completion # Null
        /\ Val(proc[p].completion).value = JsonFull
        /\ proc[p].returned # Null
        /\ "Acme" \in companies
        /\ RowOf(Val(proc[p].oid)).refinedAt # Null
        /\ [opportunityId |-> Val(proc[p].oid), tagId |-> "t1"]
               \in opportunityTagAssociations

(* C18: a refineOpportunity of a stored opportunity with usable output     *)
(* (and an expiry that is null or a date) leaves the tag catalog as it     *)
(* was, adds exactly the associations of the extracted names that are in   *)
(* the catalog, and writes the title and description, also when no         *)
(* extracted name is in the catalog.                                       *)
C18_UnmatchedTagsAreDropped ==
    [][ \A p \in Procs : \A c \in Completions :
          ( /\ Refines(p, c)
            /\ c.ok /\ c.json
            /\ c.value \in { JsonFull, JsonDated, JsonLater, JsonNoMatch }
            /\ \E o \in opportunities : o.id = Val(proc[p].oid) )
          => LET id == Val(proc[p].oid)
                 data == c.value
             IN  /\ opportunityTags' = opportunityTags
                 /\ opportunityTagAssociations' =
                        opportunityTagAssociations \cup
                            IF IsNull(data.tags) THEN {}
                            ELSE AssociationsFor(id, Val(data.tags))
                 /\ \E o \in opportunities' :
                        /\ o.id = id
                        /\ o.title = Val(data.title)
                        /\ o.description = Val(data.description)
      ]_vars

\* the 'added to the board' jobs of an opportunity
AddedJobs(id) ==
    { j \in DOMAIN jobs :
        j.message = "added to the board" /\ j.opportunityId = id }

ChatSourced(o) == ~IsNull(o.slackChannelId) /\ ~IsNull(o.slackMessageId)

(* C19: over any interleaving of refineOpportunity calls, an opportunity   *)
(* has at most one 'added to the board' notification; it has one only if   *)
(* it is chat-sourced and has been refined, and it has one once the call   *)
(* that refined a chat-sourced opportunity first has returned.             *)
C19_AddedNotificationOnce ==
    \A id \in OpportunityIds :
        /\ Cardinality(AddedJobs(id)) <= 1
        /\ \A j \in AddedJobs(id) :
               /\ jobs[j] = 1
               /\ \E o \in opportunities :
                      o.id = id /\ ChatSourced(o) /\ o.refinedAt # Null
        /\ ( /\ \E o \in opportunities :
                    o.id = id /\ ChatSourced(o) /\ o.refinedAt # Null
             /\ ~\E p \in Procs :
                    proc[p].pc = "refine_notify" /\ Val(proc[p].oid) = id )
           => AddedJobs(id) # {}

\* two refinements of the chat-sourced opportunity have committed and
\* returned, and there is its notification
C19_Witness ==
    \E p, q \in Procs :
        /\ p # q
        /\ \A x \in { p, q } :
               /\ proc[x].op = "refineOpportunity"
               /\ proc[x].oid = Some(2)
               /\ proc[x].pc = "done"
               /\ proc[x].returned # Null
        /\ AddedJobs(2) # {}

\* process p begins a createOpportunityFromSlack for message id
StartsFromSlack(p, id) ==
    /\ proc[p].pc \in { "idle", "done" }
    /\ calls' = calls - 1
    /\ proc'[p].op = "createOpportunityFromSlack"
    /\ proc'[p].message = Some(id)

(* C20: createOpportunityFromSlack on a message whose text has no embedded *)
(* link returns success, creates no opportunity, fetches nothing and       *)
(* enqueues nothing; on a missing message or one with empty text it        *)
(* returns a failure with code 404 and creates nothing either.             *)
C20_NoLinkIsNoOp ==
    [][ \A p \in Procs :
          /\ (StartsFromSlack(p, "s3") \/ StartsFromSlack(p, "s6"))
             => /\ proc'[p].pc = "done"
                /\ proc'[p].res = success([empty |-> TRUE])
                /\ proc'[p].fetch = Null
                /\ UNCHANGED << opportunities, jobs >>
          /\ (StartsFromSlack(p, "s4") \/ StartsFromSlack(p, "s9"))
             => /\ proc'[p].pc = "done"
                /\ proc'[p].res = fail(404)
                /\ proc'[p].fetch = Null
                /\ UNCHANGED << opportunities, jobs >>
      ]_vars

\* the job of the message with a bare URL was handled after an opportunity
\* had been created from another message
C20_Witness ==
    /\ proc["p1"].op = "createOpportunityFromSlack"
    /\ proc["p1"].message = Some("s6")
    /\ proc["p1"].res = success([empty |-> TRUE])
    /\ Cardinality(opportunities) = 1
    /\ calls = 0

\* the first link of the text of the stored messages that have one
LinkOfMessage(id) ==
    CASE id = "s1" -> LinkJ
      [] id = "s2" -> LinkJUpper
      [] id = "s5" -> LinkedinJ
      [] id = "s7" -> LinkEsc

MessagesWithLink == { "s1", "s2", "s5", "s7" }

\* an opportunity has the link, the case of letters ignored
Posted(link) == \E o \in opportunities : SameIgnoringCase(o.link, link)

(* C21: createOpportunityFromSlack for a message whose link already        *)
(* belongs to an opportunity (the case of letters ignored) returns         *)
(* success at once: no row is created or modified, nothing is fetched,     *)
(* no refinement runs and no job is enqueued.                              *)
C21_DuplicateLinkIsNoOp ==
    [][ \A p \in Procs : \A m \in MessagesWithLink :
          (StartsFromSlack(p, m) /\ Posted(LinkOfMessage(m)))
          => /\ proc'[p].pc = "done"
             /\ proc'[p].res = success([empty |-> TRUE])
             /\ proc'[p].fetch = Null
             /\ proc'[p].completion = Null
             /\ UNCHANGED << opportunities, jobs >>
      ]_vars

\* the requests to paste the content that were sent to a chat user
PasteRequests(queue, slackUserId) ==
    { j \in DOMAIN queue :
        j.message = "paste the content" /\ j.channel = slackUserId }

(* C22: when the AI output validates but has no title or no description,   *)
(* refineOpportunity returns success and the opportunities, the tag        *)
(* associations, the tag catalog and the companies are unchanged; one      *)
(* manual-refinement notification is enqueued when the call carried both   *)
(* slackChannelId and slackUserId, and nothing is enqueued otherwise.      *)
C22_NoTitleOrDescriptionChangesNothing ==
    [][ \A p \in Procs : \A c \in Completions :
          ( /\ Refines(p, c)
            /\ c.ok /\ c.json
            /\ c.value \in { JsonAllNull, JsonNoDescription } )
          => /\ proc'[p].refined = success([empty |-> TRUE])
             /\ UNCHANGED << opportunities, opportunityTagAssociations,
                             opportunityTags, companies >>
             /\ IF proc[p].channel # Null /\ proc[p].slackUser # Null
                THEN \E j \in PasteRequests(jobs', Val(proc[p].slackUser)) :
                         /\ j.opportunityId = Val(proc[p].oid)
                         /\ jobs' = jobs (+) SetToBag({ j })
                ELSE jobs' = jobs
      ]_vars

\* the second of two calls carried both identifiers and got a title and no
\* description: its request is the only job, and no row has changed
C22_Witness ==
    /\ proc["p1"].op = "refineOpportunity"
    /\ proc["p1"].channel # Null /\ proc["p1"].slackUser # Null
    /\ proc["p1"].completion # Null
    /\ Val(proc["p1"].completion).value = JsonNoDescription
    /\ proc["p1"].res = success([empty |-> TRUE])
    /\ calls = 0
    /\ BagCardinality(jobs) = 1
    /\ \A o \in opportunities : o.title = "Opportunity" /\ o.refinedAt = Null

\* the opportunity was stale when process p made its check: never checked,
\* or last checked 3 hours before or earlier
StaleWhenChecked(p) ==
    \/ Val(proc[p].before).lastExpirationCheck = Null
    \/ CheckAge(p) >= ThreeHours

(* C23: of two concurrent checkForExpiredOpportunity calls without force   *)
(* on the same stale opportunity (never checked, or last checked 3 hours   *)
(* ago or earlier), at most one fetches the link content, whatever the     *)
(* interleaving.                                                           *)
C23_OneFetchPerStaleRecord ==
    \A p, q \in Procs :
        ( /\ p # q
          /\ Checking(p) /\ Checking(q)
          /\ proc[p].oid = proc[q].oid
          /\ ~proc[p].force /\ ~proc[q].force
          /\ StaleWhenChecked(p) /\ StaleWhenChecked(q) )
        => ~(proc[p].fetch # Null /\ proc[q].fetch # Null)

(* C24: when the fetch fails inside checkForExpiredOpportunity, the call    *)
(* returns a failure with code 500, which makes the job a failed one,      *)
(* expiresAt is what it was, and lastExpirationCheck is the time of this   *)
(* attempt.                                                                *)
C24_FailedFetchIsReported ==
    \A p \in Procs :
        ( /\ Checking(p)
          /\ proc[p].fetch # Null
          /\ Val(proc[p].fetch).threw )
        => /\ proc[p].pc = "done"
           /\ proc[p].res = fail(500)
           /\ WorkerOutcome(proc[p].res) = "failed"
           /\ RowOf(Val(proc[p].oid)).expiresAt = Val(proc[p].before).expiresAt
           /\ RowOf(Val(proc[p].oid)).lastExpirationCheck = proc[p].at

\* the fetch failed in a check of an opportunity that had been checked
\* three hours or more before
C24_Witness ==
    \E p \in Procs :
        /\ Checking(p)
        /\ proc[p].fetch # Null
        /\ Val(proc[p].fetch).threw
        /\ Val(proc[p].before).lastExpirationCheck # Null
        /\ Val(proc[p].before).lastExpirationCheck # proc[p].at
        /\ RowOf(Val(proc[p].oid)).lastExpirationCheck = proc[p].at

\* process p takes a step of a checkForExpiredOpportunity call
ChecksInStep(p) ==
    /\ proc'[p] # proc[p]
    /\ proc'[p].op = "checkForExpiredOpportunity"

(* C25: a checkForExpiredOpportunity that selected the opportunity and     *)
(* fetched its content returns success(true) and has set expiresAt to the  *)
(* time of the call exactly when the content holds an expired phrase (in   *)
(* any case of letters), and otherwise returns success(false) with         *)
(* expiresAt as it was; no step of a check deletes an opportunity or       *)
(* changes the row of another one.                                         *)
C25_ExpiredIffPhraseFound ==
    /\ [](\A p \in Procs :
            ( /\ Checking(p)
              /\ proc[p].pc = "done"
              /\ proc[p].fetch # Null
              /\ ~Val(proc[p].fetch).threw )
            => LET expired == ContainsExpiredPhrase(Val(proc[p].fetch).content)
               IN  /\ proc[p].res = success(expired)
                   /\ RowOf(Val(proc[p].oid)).expiresAt =
                          IF expired THEN Val(proc[p].at)
                          ELSE Val(proc[p].before).expiresAt)
    /\ [][ \A p \in Procs :
              ChecksInStep(p) =>
                  /\ { o.id : o \in opportunities' } = { o.id : o \in opportunities }
                  /\ \A o \in opportunities :
                         o.id # Val(proc'[p].oid) => o \in opportunities'
          ]_vars

\* a check found "Role EXPIRED" on the page of an opportunity that had a
\* month to go, and the other opportunity is as it was
C25_Witness ==
    \E p \in Procs :
        /\ Checking(p)
        /\ proc[p].pc = "done"
        /\ proc[p].fetch = Some([threw |-> FALSE, content |-> RoleExpired])
        /\ proc[p].res = success(TRUE)
        /\ Val(proc[p].before).expiresAt = OneMonth
        /\ RowOf(Val(proc[p].oid)).expiresAt = Val(proc[p].at)
        /\ RowOf(2).expiresAt = 2

\* process p begins a checkForExpiredOpportunities
StartsSweep(p) ==
    /\ proc[p].pc \in { "idle", "done" }
    /\ calls' = calls - 1
    /\ proc'[p].op = "checkForExpiredOpportunities"

\* the stored opportunities that have not expired and were never checked
NeverChecked ==
    { o \in opportunities : o.expiresAt > now /\ o.lastExpirationCheck = Null }

\* a job that asks for a forced check of the opportunity
AsksForCheck(j, id) ==
    /\ j.name = "opportunity.check_expired"
    /\ j.force = TRUE
    /\ j.opportunityId = id

InsertsFromSlack(p) ==
    /\ proc[p].pc = "slack_insert"
    /\ proc'[p].pc # "slack_insert"

\* the opportunities made from the chat message the call of p is about
MadeFromMessage(p) ==
    { o \in opportunities :
        /\ o.slackChannelId = proc[p].channel
        /\ o.slackMessageId = proc[p].message }

(* C27: when the insert of createOpportunityFromSlack conflicts on the     *)
(* (slackChannelId, slackMessageId) pair, no second row is created, the    *)
(* call goes on with the id of the existing row, and the existing row is   *)
(* as it was (title, description, link, expiresAt, refinedAt).             *)
C27_UpsertLeavesRowAlone ==
    [][ \A p \in Procs :
          (InsertsFromSlack(p) /\ MadeFromMessage(p) # {})
          => /\ \E o \in MadeFromMessage(p) : proc'[p].oid = Some(o.id)
             /\ opportunities' = opportunities
      ]_vars

\* the last moderation call of process p expired its opportunity
Moderated(p) ==
    \/ Reported(p) /\ proc[p].res.data.removed
    \/ /\ Checking(p)
       /\ proc[p].pc = "done"
       /\ proc[p].res = success(TRUE)

(* C28: once reportOpportunity or checkForExpiredOpportunity has expired   *)
(* an opportunity (expiresAt set to the time of the call), it stays        *)
(* expired: no later refineOpportunity call moves its expiresAt to a time  *)
(* that is still to come.                                                  *)
C28_ModerationIsNotUndone ==
    \A p \in Procs :
        Moderated(p) => RowOf(Val(proc[p].oid)).expiresAt <= now

\* the number of jobs in the queue that ask for a check of the opportunity
ChecksAskedFor(queue, id) ==
    LET asking == { j \in DOMAIN queue : AsksForCheck(j, id) }
    IN  IF asking = {} THEN 0 ELSE queue[CHOOSE j \in asking : TRUE]

(* C29: once a checkForExpiredOpportunity has set lastExpirationCheck of   *)
(* an opportunity, it stays set (also when the fetch then failed), and no  *)
(* step, so no later checkForExpiredOpportunities, enqueues a check job    *)
(* for that opportunity.                                                   *)
C29_SweepSkipsCheckedOnes ==
    [][ \A a \in opportunities :
          a.lastExpirationCheck # Null
          => /\ \A b \in opportunities' :
                    b.id = a.id => b.lastExpirationCheck # Null
             /\ ChecksAskedFor(jobs', a.id) = ChecksAskedFor(jobs, a.id)
      ]_vars

\* the check of opportunity 1 failed on its fetch, and the sweep with limit
\* 1 that came after it picked opportunity 3, which is newer
C29_Witness ==
    /\ proc["p2"].op = "checkForExpiredOpportunity"
    /\ proc["p2"].oid = Some(1)
    /\ proc["p2"].res = fail(500)
    /\ proc["p1"].op = "checkForExpiredOpportunities"
    /\ proc["p1"].limit = 1
    /\ proc["p1"].returned = Some({ 3 })
    /\ RowOf(3).createdAt > RowOf(1).createdAt
    /\ ChecksAskedFor(jobs, 1) = 1
    /\ RowOf(1).expiresAt > now

=============================================================================
